---- MODULE Spec2Model ----
(***************************************************************************)
(* Motion Wave: the gesture-to-harmony pipeline.                           *)
(*   - VocalAudioEngine / VocalVoice   (utils/audioEngine)                 *)
(*   - useHarmonizer                   (hooks/useHarmonizer.ts)            *)
(*   - HandGestureTracker              (components)                        *)
(* Time is the audio clock in units of 25 ms; gains are in percent.        *)
(***************************************************************************)
EXTENDS Integers, Sequences, FiniteSets, TLC

(***************************************************************************)
(* Bounds of the model.                                                    *)
(***************************************************************************)
MaxTime == 4          \* audio-clock ticks explored
MaxChords == 2        \* playChord bodies executed
MaxPosts == 2         \* harmonization requests posted
PitchGrid == 18       \* pitch positions are k / PitchGrid, k \in 0..PitchGrid

(***************************************************************************)
(* Program constants.                                                      *)
(***************************************************************************)
AttackTime == 2       \* 0.05 s
ReleaseTime == 4      \* 0.1 s
TransitionTime == 2   \* 0.05 s
SustainLevel == 25    \* 0.25
DefaultMasterVolume == 50   \* 0.5
UnityGain == 100      \* 1.0

NotScheduled == -1
null == -1

Parts == <<"soprano", "alto", "tenor", "bass">>
PartSet == {Parts[i] : i \in 1..Len(Parts)}

Range(f) == {f[x] : x \in DOMAIN f}
Max(a, b) == IF a > b THEN a ELSE b
Min(a, b) == IF a < b THEN a ELSE b

VARIABLES
  \* VocalAudioEngine
  isInitialized,      \* private isInitialized
  audioContext,       \* state of this.audioContext: "null", "suspended", "running", "closed"
  contextsCreated,    \* number of AudioContext objects constructed
  masterGain,         \* the master GainNode's gain parameter (NullGain while null)
  currentVoices,      \* Map<string, VocalVoice>: part -> index into voices
  voices,             \* every VocalVoice constructed so far
  currentTime,        \* audioContext.currentTime
  pendingPlay,        \* playChord calls suspended at `await this.initialize()`
  lastPlay,           \* how the playChord call that settled last ended, and its arguments
  \* useHarmonizer
  hIsReady,           \* state.isReady
  hIsLoading,         \* state.isLoading
  hError,             \* state.error # null
  isRealTimeMode,
  currentHarmony,     \* HarmonyChord (NoHarmony: null); id stands for the object's identity
  workerRef,          \* workerRef.current: index into workers (0: null)
  workers,            \* the Worker objects created by the hook
  \* HandGestureTracker
  handPreference,
  controlHand,        \* HandPosition
  volumeHand,         \* VolumeHand
  lastPlayedNoteRef,  \* lastPlayedNoteRef.current
  postCount,          \* harmonization requests posted so far
  tIsLoading,         \* isLoading of the tracker: the camera and the detector not started
  tError,             \* error # null of the tracker
  \* pitch quantisation probe
  probeLo, probeHi,
  \* the hands of the frame onResults handled last, where a specification records them
  results,
  frameRaised,        \* the last call of onResults raised an error, where recorded
  \* callers of the hook and of the engine, where a specification records them
  sequence,           \* sequenceRef.current and state.currentSequence (NoSequence: null)
  lastHarmonize,      \* how the last harmonizeNote / harmonizeNoteRealTime call ended
  lastCall            \* the engine call issued last

engineVars == <<isInitialized, audioContext, contextsCreated, masterGain, currentVoices,
                voices, currentTime, pendingPlay, lastPlay>>
voiceVars == <<currentVoices, voices>>
hookVars == <<hIsReady, hIsLoading, hError, isRealTimeMode, currentHarmony, workerRef, workers>>
trackerVars == <<handPreference, controlHand, volumeHand, lastPlayedNoteRef, postCount,
                 tIsLoading, tError>>
probeVars == <<probeLo, probeHi, results, frameRaised, sequence, lastHarmonize, lastCall>>
vars == <<engineVars, hookVars, trackerVars, probeVars>>

(***************************************************************************)
(* AudioParam automation: a value held until t0, then a linear ramp that   *)
(* reaches v1 at t1 (setValueAtTime(v0, t0); linearRampToValueAtTime(v1,   *)
(* t1)).                                                                   *)
(***************************************************************************)
ParamValue(g, t) ==
  IF t <= g.t0 THEN g.v0
  ELSE IF t >= g.t1 THEN g.v1
  ELSE g.v0 + ((g.v1 - g.v0) * (t - g.t0)) \div (g.t1 - g.t0)

Ramp(from, now, to, end) == [t0 |-> now, v0 |-> from, t1 |-> end, v1 |-> to]

NullGain == [node |-> FALSE, t0 |-> 0, v0 |-> 0, t1 |-> 0, v1 |-> 0]

(***************************************************************************)
(* VocalVoice                                                              *)
(***************************************************************************)
\* 440 * 2^((midiNote - 69) / 12), kept as the reference and the exponent's numerator
midiToFrequency(midiNote) == [ref |-> 440, semitones |-> midiNote - 69]

setupVocalFilter(voiceType) ==
  CASE voiceType = "soprano" -> 1200
    [] voiceType = "alto" -> 900
    [] voiceType = "tenor" -> 650
    [] voiceType = "bass" -> 400
    [] OTHER -> 800

setupGainEnvelope(now) == Ramp(0, now, SustainLevel, now + AttackTime)

\* the soprano sustains at twice the level of the other parts
VocalVoiceSopranoLouder(midiNote, voiceType, now) ==
  [ voiceType |-> voiceType,
    frequency |-> midiToFrequency(midiNote),
    filterFreq |-> setupVocalFilter(voiceType),
    gain |-> IF voiceType = "soprano"
             THEN Ramp(0, now, 2 * SustainLevel, now + AttackTime)
             ELSE setupGainEnvelope(now),
    startAt |-> NotScheduled,
    stopAt |-> NotScheduled ]

VocalVoice(midiNote, voiceType, now) ==
  [ voiceType |-> voiceType,
    frequency |-> midiToFrequency(midiNote),
    filterFreq |-> setupVocalFilter(voiceType),
    gain |-> setupGainEnvelope(now),
    startAt |-> NotScheduled,      \* oscillator1/2.start(when)
    stopAt |-> NotScheduled ]      \* oscillator1/2.stop(when)

VoiceStart(v, now) == [v EXCEPT !.startAt = now]

\* a stop with no release: gain to zero and oscillators stopped at once
VoiceStopAbrupt(v, now) ==
  [v EXCEPT !.gain = Ramp(0, now, 0, now), !.stopAt = now]

VoiceStop(v, now) ==
  [v EXCEPT !.gain = Ramp(ParamValue(v.gain, now), now, 0, now + ReleaseTime),
            !.stopAt = now + ReleaseTime]

(***************************************************************************)
(* VocalAudioEngine                                                        *)
(***************************************************************************)
NoVoices == [p \in {} |-> 0]

\* stopAll(): voice.stop() on every current voice, then currentVoices.clear()
StoppedVoices(vs, cur, now) ==
  [i \in DOMAIN vs |-> IF i \in Range(cur) THEN VoiceStop(vs[i], now) ELSE vs[i]]

\* the voices are stopped but the map is not cleared
stopAllNoClear ==
  /\ voices' = StoppedVoices(voices, currentVoices, currentTime)
  /\ currentVoices' = currentVoices

stopAll ==
  /\ voices' = StoppedVoices(voices, currentVoices, currentTime)
  /\ currentVoices' = NoVoices

\* the tenor stored under the alto's key
playChordVoicesDupKey(soprano, alto, tenor, bass, now) ==
  [p \in {"soprano", "alto", "bass"} |->
     CASE p = "soprano" -> VocalVoice(soprano, "soprano", now)
       [] p = "alto" -> VocalVoice(tenor, "tenor", now)
       [] p = "bass" -> VocalVoice(bass, "bass", now)]

\* alto and tenor given each other's notes
playChordVoicesSwapped(soprano, alto, tenor, bass, now) ==
  [p \in PartSet |->
     CASE p = "soprano" -> VocalVoice(soprano, "soprano", now)
       [] p = "alto" -> VocalVoice(tenor, "alto", now)
       [] p = "tenor" -> VocalVoice(alto, "tenor", now)
       [] p = "bass" -> VocalVoice(bass, "bass", now)]

\* the four currentVoices.set(...) calls of playChord
playChordVoices(soprano, alto, tenor, bass, now) ==
  [p \in PartSet |->
     CASE p = "soprano" -> VocalVoice(soprano, "soprano", now)
       [] p = "alto" -> VocalVoice(alto, "alto", now)
       [] p = "tenor" -> VocalVoice(tenor, "tenor", now)
       [] p = "bass" -> VocalVoice(bass, "bass", now)]

KeysInOrder(f) == SelectSeq(Parts, LAMBDA p : p \in DOMAIN f)

\* playChord after `await this.initialize()`: stopAll, four new voices, start them all
playChordBody(chord) ==
  LET now == currentTime
      stopped == StoppedVoices(voices, currentVoices, now)
      made == playChordVoices(chord[1], chord[2], chord[3], chord[4], now)
      keys == KeysInOrder(made)
      started == [k \in 1..Len(keys) |-> VoiceStart(made[keys[k]], now)]
  IN /\ voices' = stopped \o started
     /\ currentVoices' = [p \in DOMAIN made |->
                            Len(voices) + (CHOOSE k \in 1..Len(keys) : keys[k] = p)]
     /\ lastPlay' = [result |-> "resolved", chord |-> chord]

\* only the upper limit is applied
clampVolumeUpperOnly(volume) == Min(UnityGain, volume)

\* setMasterVolume(volume)
clampVolume(volume) == Max(0, Min(UnityGain, volume))

\* the target is set at once, with no ramp
setMasterVolumeGainStep(gain, volume, now) ==
  [node |-> TRUE, t0 |-> now, v0 |-> clampVolume(volume),
   t1 |-> now + TransitionTime, v1 |-> clampVolume(volume)]

setMasterVolumeGain(gain, volume, now) ==
  [node |-> TRUE, t0 |-> now, v0 |-> ParamValue(gain, now),
   t1 |-> now + TransitionTime, v1 |-> clampVolume(volume)]

setMasterVolume(volume) ==
  IF ~isInitialized \/ ~masterGain.node
  THEN masterGain' = masterGain
  ELSE masterGain' = setMasterVolumeGain(masterGain, volume, currentTime)

getMasterVolume ==
  IF ~isInitialized \/ ~masterGain.node THEN DefaultMasterVolume
  ELSE ParamValue(masterGain, currentTime)

\* isInitialized set only once the context runs, after the await
initializeSetupFlagAfterResume(ctxState) ==
  /\ audioContext' = ctxState
  /\ contextsCreated' = contextsCreated + 1
  /\ masterGain' = [node |-> TRUE, t0 |-> currentTime, v0 |-> DefaultMasterVolume,
                    t1 |-> currentTime, v1 |-> DefaultMasterVolume]
  /\ isInitialized' = (ctxState = "running")

\* initialize(), up to its await: the context, the master gain at 0.5, isInitialized
initializeSetup(ctxState) ==
  /\ audioContext' = ctxState
  /\ contextsCreated' = contextsCreated + 1
  /\ masterGain' = [node |-> TRUE, t0 |-> currentTime, v0 |-> DefaultMasterVolume,
                    t1 |-> currentTime, v1 |-> DefaultMasterVolume]
  /\ isInitialized' = TRUE

\* playChord(soprano, alto, tenor, bass) on an initialized engine: runs to completion
PlayChordInitialized(chord) ==
  /\ isInitialized
  /\ Len(voices) < 4 * MaxChords
  /\ playChordBody(chord)
  /\ UNCHANGED <<isInitialized, audioContext, contextsCreated, masterGain, currentTime,
                 pendingPlay>>

\* first playChord, context not suspended: initialize() returns and the body follows
PlayChordInitRunning(chord) ==
  /\ ~isInitialized
  /\ Len(voices) < 4 * MaxChords
  /\ initializeSetup("running")
  /\ playChordBody(chord)
  /\ UNCHANGED <<currentTime, pendingPlay>>

\* first playChord, context suspended: the call waits for audioContext.resume()
PlayChordInitSuspended(chord) ==
  /\ ~isInitialized
  /\ initializeSetup("suspended")
  /\ pendingPlay' = Append(pendingPlay, chord)
  /\ UNCHANGED <<currentVoices, voices, currentTime, lastPlay>>

\* first playChord, the AudioContext constructor throws: initialize and playChord reject
PlayChordInitFails(chord) ==
  /\ ~isInitialized
  /\ lastPlay' = [result |-> "rejected", chord |-> chord]
  /\ UNCHANGED <<isInitialized, audioContext, contextsCreated, masterGain, currentVoices,
                 voices, currentTime, pendingPlay>>

\* audioContext.resume() resolves: the waiting playChord continues
ResumeResolves ==
  /\ pendingPlay # <<>>
  /\ audioContext = "suspended"
  /\ Len(voices) < 4 * MaxChords
  /\ audioContext' = "running"
  /\ playChordBody(Head(pendingPlay))
  /\ pendingPlay' = Tail(pendingPlay)
  /\ UNCHANGED <<isInitialized, contextsCreated, masterGain, currentTime>>

\* audioContext.resume() rejects: initialize rethrows and the waiting playChord rejects
ResumeRejects ==
  /\ pendingPlay # <<>>
  /\ pendingPlay' = Tail(pendingPlay)
  /\ lastPlay' = [result |-> "rejected", chord |-> Head(pendingPlay)]
  /\ UNCHANGED <<isInitialized, audioContext, contextsCreated, masterGain, currentVoices,
                 voices, currentTime>>

StopAll ==
  /\ stopAll
  /\ UNCHANGED <<isInitialized, audioContext, contextsCreated, masterGain, currentTime,
                 pendingPlay, lastPlay>>

SetMasterVolume(volume) ==
  /\ setMasterVolume(volume)
  /\ UNCHANGED <<isInitialized, audioContext, contextsCreated, currentVoices, voices,
                 currentTime, pendingPlay, lastPlay>>

\* the context is left open
destroyKeepsContext ==
  /\ stopAll
  /\ audioContext' = audioContext

\* destroy(): stopAll, then close the context unless there is none or it is closed
destroy ==
  /\ stopAll
  /\ audioContext' = IF audioContext \notin {"null", "closed"} THEN "closed"
                     ELSE audioContext

Destroy ==
  /\ destroy
  /\ UNCHANGED <<isInitialized, contextsCreated, masterGain, currentTime, pendingPlay,
                 lastPlay>>

\* the audio clock advances while the context runs
Tick ==
  /\ audioContext = "running"
  /\ currentTime < MaxTime
  /\ currentTime' = currentTime + 1
  /\ UNCHANGED <<isInitialized, audioContext, contextsCreated, masterGain, currentVoices,
                 voices, pendingPlay, lastPlay>>

(***************************************************************************)
(* Inputs                                                                  *)
(***************************************************************************)
ChordInputs == { <<72, 67, 64, 60>>, <<74, 65, 62, 59>> }
VolumeInputs == { -20, 0, 70, 130 }
EngineVolumeInputs == { 130 }

(***************************************************************************)
(* Pitch quantisation (HandGestureTracker)                                 *)
(***************************************************************************)
\* the pitch position grows with y
getPitchFromYUninverted(y) == Max(0, Min(PitchGrid, y))

\* no clamp: the inverted position is used as it comes
getPitchFromYUnclamped(y) == PitchGrid - y

\* Math.max(0, Math.min(1, 1 - y)), y = k / PitchGrid
getPitchFromY(y) == Max(0, Min(PitchGrid, PitchGrid - y))
\* the same clamp, in percent
getVolumeFromY(y) == (Max(0, Min(PitchGrid, PitchGrid - y)) * UnityGain) \div PitchGrid

whiteKeyPattern == <<0, 2, 4, 5, 7, 9, 11>>

\* both octaves run to B
whiteKeysFullOctave(octave) ==
  [i \in 1..7 |-> (octave + 1) * 12 + whiteKeyPattern[i]]

whiteKeysOfOctave(octave) ==
  LET startIdx == 0
      endIdx == IF octave = 5 THEN 2 ELSE 6
  IN [i \in 1..(endIdx - startIdx + 1) |->
        (octave + 1) * 12 + whiteKeyPattern[startIdx + i]]

whiteKeys == whiteKeysOfOctave(4) \o whiteKeysOfOctave(5)

\* the position is taken from the top
keyIndexInverted(p) == ((PitchGrid - p) * (Len(whiteKeys) - 1)) \div PitchGrid

\* scaled by the array's length instead of its last index
keyIndexFullLength(p) == (p * Len(whiteKeys)) \div PitchGrid

\* Math.floor(pitch * (whiteKeys.length - 1)), pitch = p / PitchGrid
keyIndex(p) == (p * (Len(whiteKeys) - 1)) \div PitchGrid

\* whiteKeys[keyIndex]; an index outside the array reads undefined (null)
pitchToMidi(p) ==
  IF keyIndex(p) \in 0..(Len(whiteKeys) - 1) THEN whiteKeys[keyIndex(p) + 1] ELSE null

(***************************************************************************)
(* Landmarks and frames (HandGestureTracker.onResults)                     *)
(***************************************************************************)
Landmark(x, y) == [present |-> TRUE, x |-> x, y |-> y]
MissingLandmark == [present |-> FALSE, x |-> 0, y |-> 0]

\* landmarks[i] of a JavaScript array: undefined past the end
At(landmarks, i) == IF i < Len(landmarks) THEN landmarks[i + 1] ELSE MissingLandmark

FingerPairs == << <<8, 6>>, <<12, 10>>, <<16, 14>>, <<20, 18>> >>

\* two fingers are enough to classify
detectVowelTwoFingers(landmarks) ==
  IF Len(landmarks) < 21 THEN "NONE"
  ELSE
    LET validFingers == {k \in 1..4 : /\ At(landmarks, FingerPairs[k][1]).present
                                      /\ At(landmarks, FingerPairs[k][2]).present}
        tipY(k) == At(landmarks, FingerPairs[k][1]).y
        pipY(k) == At(landmarks, FingerPairs[k][2]).y
        extendedFingers == Cardinality({k \in validFingers : tipY(k) < pipY(k)})
        foldedFingers == Cardinality({k \in validFingers : tipY(k) > pipY(k)})
    IN IF Cardinality(validFingers) < 2 THEN "NONE"
       ELSE IF extendedFingers >= 2 THEN "A"
       ELSE IF foldedFingers >= 2 THEN "O"
       ELSE "NONE"

detectVowel(landmarks) ==
  IF Len(landmarks) < 21 THEN "NONE"
  ELSE
    LET validFingers == {k \in 1..4 : /\ At(landmarks, FingerPairs[k][1]).present
                                      /\ At(landmarks, FingerPairs[k][2]).present}
        tipY(k) == At(landmarks, FingerPairs[k][1]).y
        pipY(k) == At(landmarks, FingerPairs[k][2]).y
        extendedFingers == Cardinality({k \in validFingers : tipY(k) < pipY(k)})
        foldedFingers == Cardinality({k \in validFingers : tipY(k) > pipY(k)})
    IN IF Cardinality(validFingers) < 3 THEN "NONE"
       ELSE IF extendedFingers >= 3 THEN "A"
       ELSE IF foldedFingers >= 3 THEN "O"
       ELSE "NONE"

\* the detector's label is taken as it is, without the mirror flip
isControlHandUnmirrored(handedness, pref) ==
  \/ (pref = "right" /\ handedness = "Right")
  \/ (pref = "left" /\ handedness = "Left")

isControlHand(handedness, pref) ==
  \/ (pref = "right" /\ handedness = "Left")
  \/ (pref = "left" /\ handedness = "Right")

isVolumeHand(handedness, pref) ==
  \/ (pref = "right" /\ handedness = "Right")
  \/ (pref = "left" /\ handedness = "Left")

\* the "Store hand data" step for one hand; acc holds controlHandData and volumeHandData
\* (<<>>: null)
StoreHandData(acc, hand, pref) ==
  LET indexTip == At(hand.landmarks, 8) IN
  IF isControlHand(hand.label, pref) /\ Len(hand.landmarks) > 8
  THEN IF indexTip.present
       THEN [acc EXCEPT !.control = << [x |-> indexTip.x, y |-> indexTip.y,
                                        detected |-> TRUE,
                                        vowel |-> detectVowel(hand.landmarks)] >>]
       ELSE acc
  ELSE IF isVolumeHand(hand.label, pref) /\ Len(hand.landmarks) > 8
  THEN IF indexTip.present
       THEN [acc EXCEPT !.volume = << [y |-> indexTip.y, detected |-> TRUE] >>]
       ELSE acc
  ELSE acc

RECURSIVE ProcessHands(_, _, _)
ProcessHands(acc, hands, pref) ==
  IF hands = <<>> THEN acc
  ELSE ProcessHands(StoreHandData(acc, Head(hands), pref), Tail(hands), pref)

\* controlHandData and volumeHandData after the forEach over the frame's hands; with no
\* hands at all both stay null, which is what the else branch of onResults acts on
HandData(hands, pref) == ProcessHands([control |-> <<>>, volume |-> <<>>], hands, pref)

\* the position falls back to its initial value when the hand is lost
onResultsControlReset(prev, data) ==
  IF data.control # <<>> THEN data.control[1]
  ELSE [x |-> PitchGrid \div 2, y |-> PitchGrid \div 2, detected |-> FALSE, vowel |-> "NONE"]

\* only the detected flag changes when the hand is lost
onResultsControlSticky(prev, data) ==
  IF data.control # <<>> THEN data.control[1]
  ELSE [prev EXCEPT !.detected = FALSE]

\* setControlHand / setVolumeHand at the end of onResults
onResultsControl(prev, data) ==
  IF data.control # <<>> THEN data.control[1]
  ELSE [prev EXCEPT !.detected = FALSE, !.vowel = "NONE"]

onResultsVolume(prev, data) ==
  IF data.volume # <<>> THEN data.volume[1]
  ELSE [prev EXCEPT !.detected = FALSE]

currentPitch(ch) == IF ch.detected THEN getPitchFromY(ch.y) ELSE 0
currentVolume(vh) == IF vh.detected THEN getVolumeFromY(vh.y) ELSE DefaultMasterVolume

(***************************************************************************)
(* useHarmonizer                                                           *)
(***************************************************************************)
\* sequenceRef.current = null
NoSequence == [exists |-> FALSE, melody |-> <<>>, harmonies |-> <<>>]
\* no engine call issued yet
NoCall == [op |-> "none", chord |-> <<>>]

NoHarmony == [id |-> 0, soprano |-> null, alto |-> null, tenor |-> null, bass |-> null]

NewWorker == [created |-> TRUE, loaded |-> FALSE, terminated |-> FALSE,
              inbox |-> <<>>, outbox |-> <<>>]
NoWorker == [created |-> FALSE, loaded |-> FALSE, terminated |-> FALSE,
             inbox |-> <<>>, outbox |-> <<>>]

Alive(w) == workers[w].created /\ ~workers[w].terminated

\* a short response overwrites the parts it has notes for
handleHarmonyReceivedPartial(harmony, notes) ==
  [id |-> harmony.id + 1,
   soprano |-> IF Len(notes) >= 1 THEN notes[1] ELSE harmony.soprano,
   alto |-> IF Len(notes) >= 2 THEN notes[2] ELSE harmony.alto,
   tenor |-> IF Len(notes) >= 3 THEN notes[3] ELSE harmony.tenor,
   bass |-> IF Len(notes) >= 4 THEN notes[4] ELSE harmony.bass]

\* handleHarmonyReceived(notes): the chord published, or the one kept
handleHarmonyReceived(harmony, notes) ==
  IF Len(notes) < 4 THEN harmony
  ELSE [id |-> harmony.id + 1, soprano |-> notes[1], alto |-> notes[2],
        tenor |-> notes[3], bass |-> notes[4]]

\* harmonizeNoteRealTime(midiNote) throws unless state.isReady and workerRef.current
harmonizeNoteRealTimeThrows(ready, wref) == ~ready \/ wref = 0

\* workerRef.current.postMessage({ note: midiNote })
postMessage(ws, wref, midiNote) ==
  [ws EXCEPT ![wref].inbox = Append(ws[wref].inbox, midiNote)]

\* the cleanup and re-run of the worker effect when handleHarmonyReceived changes:
\* terminate the referenced worker and create the next one
ReplacedWorkers(ws, wref) ==
  LET terminated == IF wref # 0 THEN [ws EXCEPT ![wref].terminated = TRUE] ELSE ws
  IN [terminated EXCEPT ![wref + 1] = NewWorker]

(***************************************************************************)
(* HandGestureTracker effects                                              *)
(***************************************************************************)
\* dependencies of the harmonization effect
HarmonizationDeps(ch, ready) == <<ch.detected, ch.vowel, currentPitch(ch), ready>>

\* no comparison with the last-submitted note
HarmonizationBranchNoDedup(ch, ready, marker) ==
  IF ch.detected /\ ready /\ ch.vowel # "NONE" THEN "harmonize"
  ELSE IF ~ch.detected \/ ch.vowel = "NONE" THEN "silence" ELSE "skip"

\* no check of the gesture class
HarmonizationBranchAnyGesture(ch, ready, marker) ==
  IF ch.detected /\ ready
  THEN IF pitchToMidi(currentPitch(ch)) # marker THEN "harmonize" ELSE "skip"
  ELSE IF ~ch.detected THEN "silence" ELSE "skip"

\* silence is requested only by a ready harmonizer
HarmonizationBranchReadyOnly(ch, ready, marker) ==
  IF ch.detected /\ ready /\ ch.vowel # "NONE"
  THEN IF pitchToMidi(currentPitch(ch)) # marker THEN "harmonize" ELSE "skip"
  ELSE IF ready /\ (~ch.detected \/ ch.vowel = "NONE") THEN "silence" ELSE "skip"

\* which branch the harmonization effect takes
HarmonizationBranch(ch, ready, marker) ==
  IF ch.detected /\ ready /\ ch.vowel # "NONE"
  THEN IF pitchToMidi(currentPitch(ch)) # marker THEN "harmonize" ELSE "skip"
  ELSE IF ~ch.detected \/ ch.vowel = "NONE" THEN "silence" ELSE "skip"

\* the branch taken after a render with control hand ch and readiness ready ("skip"
\* also when no dependency changed, or when harmonizeNoteRealTime throws)
HarmonizationRun(ch, ready) ==
  LET branch == IF HarmonizationDeps(ch, ready) # HarmonizationDeps(controlHand, hIsReady)
                THEN HarmonizationBranch(ch, ready, lastPlayedNoteRef)
                ELSE "skip"
  IN IF branch = "harmonize" /\ harmonizeNoteRealTimeThrows(ready, workerRef)
     THEN "skip" ELSE branch

\* the workers after the harmonization effect, from the workers ws the event left
HarmonizedWorkers(ch, ready, ws) ==
  IF HarmonizationRun(ch, ready) = "harmonize"
  THEN postMessage(ws, workerRef, pitchToMidi(currentPitch(ch)))
  ELSE ws

\* silence is requested but the marker is kept
HarmonizationEffectKeepsMarker(ch, ready) ==
  CASE HarmonizationRun(ch, ready) = "harmonize" ->
         /\ postCount < MaxPosts
         /\ postCount' = postCount + 1
         /\ lastPlayedNoteRef' = pitchToMidi(currentPitch(ch))
         /\ UNCHANGED voiceVars
    [] HarmonizationRun(ch, ready) = "silence" ->
         /\ stopAll
         /\ UNCHANGED <<postCount, lastPlayedNoteRef>>
    [] OTHER ->
         UNCHANGED <<postCount, lastPlayedNoteRef, voiceVars>>

\* the harmonization effect on the marker and the engine
HarmonizationEffect(ch, ready) ==
  CASE HarmonizationRun(ch, ready) = "harmonize" ->
         /\ postCount < MaxPosts
         /\ postCount' = postCount + 1
         /\ lastPlayedNoteRef' = pitchToMidi(currentPitch(ch))
         /\ UNCHANGED voiceVars
    [] HarmonizationRun(ch, ready) = "silence" ->
         /\ stopAll
         /\ lastPlayedNoteRef' = null
         /\ UNCHANGED postCount
    [] OTHER ->
         UNCHANGED <<postCount, lastPlayedNoteRef, voiceVars>>

\* nothing is requested when the volume hand is lost
VolumeEffectHoldsLast(vh) ==
  IF <<vh.detected, currentVolume(vh)>> # <<volumeHand.detected, currentVolume(volumeHand)>>
     /\ vh.detected
  THEN setMasterVolume(currentVolume(vh))
  ELSE UNCHANGED masterGain

\* without a volume hand the volume follows the control hand's height
VolumeEffectFallsBackToControl(vh) ==
  setMasterVolume(IF vh.detected THEN currentVolume(vh)
                  ELSE IF controlHand'.detected THEN getVolumeFromY(controlHand'.y)
                  ELSE DefaultMasterVolume)

\* the volume effect: runs when volumeHand.detected or currentVolume changed
VolumeEffect(vh) ==
  IF <<vh.detected, currentVolume(vh)>> # <<volumeHand.detected, currentVolume(volumeHand)>>
  THEN setMasterVolume(IF vh.detected THEN currentVolume(vh) ELSE DefaultMasterVolume)
  ELSE UNCHANGED masterGain

\* audioEngine.playChord(...): every way the call can go
playChord(chord) ==
  \/ PlayChordInitialized(chord)
  \/ PlayChordInitRunning(chord)
  \/ PlayChordInitSuspended(chord)
  \/ PlayChordInitFails(chord)

\* a chord is dropped when no note is recorded as submitted
PlayEffectDropsStale(harmony) ==
  IF harmony.id # currentHarmony.id /\ harmony.id # 0 /\ lastPlayedNoteRef # null
  THEN playChord(<<harmony.soprano, harmony.alto, harmony.tenor, harmony.bass>>)
  ELSE UNCHANGED engineVars

\* the play effect: runs when currentHarmony changed
PlayEffect(harmony) ==
  IF harmony.id # currentHarmony.id /\ harmony.id # 0
  THEN playChord(<<harmony.soprano, harmony.alto, harmony.tenor, harmony.bass>>)
  ELSE UNCHANGED engineVars

(***************************************************************************)
(* Events                                                                  *)
(***************************************************************************)
\* frames are processed from the start, whatever became of the camera
processFrameStartedAtMount(loading, err) == TRUE

\* processFrame runs, and onResults is registered, once the video has loaded its data;
\* neither happens when getUserMedia or the detector's script failed
processFrameStarted(loading, err) == ~loading /\ ~err

\* video.onloadeddata: setIsLoading(false), processFrame()
CameraLoaded ==
  /\ tIsLoading /\ ~tError
  /\ tIsLoading' = FALSE
  /\ UNCHANGED <<engineVars, hookVars>>
  /\ UNCHANGED <<handPreference, controlHand, volumeHand, lastPlayedNoteRef, postCount,
                 tError>>

\* getUserMedia rejects, or the detector's script fails to load: setError, setIsLoading(false)
CameraFails ==
  /\ tIsLoading /\ ~tError
  /\ tError' = TRUE
  /\ tIsLoading' = FALSE
  /\ UNCHANGED <<engineVars, hookVars>>
  /\ UNCHANGED <<handPreference, controlHand, volumeHand, lastPlayedNoteRef, postCount>>

\* the landmark drawing loop reads landmark.x of every entry: an entry that is undefined
\* raises a TypeError before any state is set (an entry that is a hole of the array is
\* skipped by forEach)
drawLandmarksRaises(hands) ==
  \E i \in DOMAIN hands : \E j \in DOMAIN hands[i].landmarks :
    ~hands[i].landmarks[j].present

\* one video frame: onResults, the render, the volume and harmonization effects
Frame(data) ==
  LET ch == onResultsControl(controlHand, data)
      vh == onResultsVolume(volumeHand, data)
  IN /\ processFrameStarted(tIsLoading, tError)
     /\ controlHand' = ch
     /\ volumeHand' = vh
     /\ VolumeEffect(vh)
     /\ HarmonizationEffect(ch, hIsReady)
     /\ workers' = HarmonizedWorkers(ch, hIsReady, workers)
     /\ UNCHANGED <<isInitialized, audioContext, contextsCreated, currentTime, pendingPlay,
                    lastPlay>>
     /\ UNCHANGED <<hIsReady, hIsLoading, hError, isRealTimeMode, currentHarmony, workerRef,
                    handPreference, tIsLoading, tError>>

\* worker w posts { type: 'Loaded' }: isReady, then the real-time-mode effect toggles the
\* mode on the first time, which replaces handleHarmonyReceived and so the worker
WorkerLoaded(w, workerCreated) ==
  LET loaded == [workers EXCEPT ![w].loaded = TRUE]
      posted == HarmonizedWorkers(controlHand, TRUE, loaded)
  IN /\ Alive(w)
     /\ ~workers[w].loaded
     /\ HarmonizationEffect(controlHand, TRUE)
     /\ IF ~isRealTimeMode
        THEN /\ isRealTimeMode' = TRUE
             /\ currentHarmony' = NoHarmony
             /\ IF workerCreated
                THEN /\ workers' = ReplacedWorkers(posted, workerRef)
                     /\ workerRef' = workerRef + 1
                     /\ hIsReady' = TRUE
                     /\ hIsLoading' = TRUE
                     /\ hError' = FALSE
                ELSE /\ workers' = [posted EXCEPT ![workerRef].terminated = TRUE]
                     /\ workerRef' = workerRef
                     /\ hIsReady' = FALSE
                     /\ hIsLoading' = FALSE
                     /\ hError' = TRUE
        ELSE /\ workerCreated
             /\ workers' = posted
             /\ hIsReady' = TRUE
             /\ hIsLoading' = FALSE
             /\ hError' = FALSE
             /\ UNCHANGED <<isRealTimeMode, currentHarmony, workerRef>>
     /\ UNCHANGED <<isInitialized, audioContext, contextsCreated, masterGain, currentTime,
                    pendingPlay, lastPlay>>
     /\ UNCHANGED <<handPreference, controlHand, volumeHand, tIsLoading, tError>>

\* worker.onerror
WorkerError(w) ==
  /\ Alive(w)
  /\ hIsReady' = FALSE
  /\ hIsLoading' = FALSE
  /\ hError' = TRUE
  /\ HarmonizationEffect(controlHand, FALSE)
  /\ workers' = HarmonizedWorkers(controlHand, FALSE, workers)
  /\ UNCHANGED <<isInitialized, audioContext, contextsCreated, masterGain, currentTime,
                 pendingPlay, lastPlay>>
  /\ UNCHANGED <<isRealTimeMode, currentHarmony, workerRef>>
  /\ UNCHANGED <<handPreference, controlHand, volumeHand, tIsLoading, tError>>

\* the harmony service answers the oldest request of loaded worker w
WorkerResponds(w, notes) ==
  /\ Alive(w)
  /\ workers[w].loaded
  /\ workers[w].inbox # <<>>
  /\ workers' = [workers EXCEPT ![w].inbox = Tail(@), ![w].outbox = Append(@, notes)]
  /\ UNCHANGED <<engineVars, trackerVars>>
  /\ UNCHANGED <<hIsReady, hIsLoading, hError, isRealTimeMode, currentHarmony, workerRef>>

\* worker.onmessage with { type: 'Notes', notes }: handleHarmonyReceived, the render and
\* the play effect
DeliverNotes(w) ==
  LET harmony == handleHarmonyReceived(currentHarmony, Head(workers[w].outbox))
  IN /\ Alive(w)
     /\ workers[w].outbox # <<>>
     /\ workers' = [workers EXCEPT ![w].outbox = Tail(@)]
     /\ currentHarmony' = harmony
     /\ PlayEffect(harmony)
     /\ UNCHANGED trackerVars
     /\ UNCHANGED <<hIsReady, hIsLoading, hError, isRealTimeMode, workerRef>>

(***************************************************************************)
(* useHarmonizer under any caller                                          *)
(***************************************************************************)
\* every received chord is appended to the sequence, real-time mode or not
handleHarmonyReceivedSequenceAlways(seq, realTime, notes) ==
  IF Len(notes) < 4 \/ ~seq.exists THEN seq
  ELSE [seq EXCEPT !.harmonies = Append(@, SubSeq(notes, 1, 4))]

\* handleHarmonyReceived(notes) on the sequence: the chord is appended when real-time
\* mode is off and a sequence exists
handleHarmonyReceivedSequence(seq, realTime, notes) ==
  IF Len(notes) < 4 \/ realTime \/ ~seq.exists THEN seq
  ELSE [seq EXCEPT !.harmonies = Append(@, SubSeq(notes, 1, 4))]

\* toggleRealTimeMode on the current harmony: `if (!isRealTimeMode) setCurrentHarmony(null)`
toggleRealTimeModeHarmony(realTime, harmony) ==
  IF ~realTime THEN NoHarmony ELSE harmony

\* the melody gets the note before the readiness test
harmonizeNoteMelodyUnguarded(seq, ready, wref, midiNote) ==
  IF ~seq.exists THEN seq
  ELSE [seq EXCEPT !.melody = Append(@, midiNote)]

\* harmonizeNote(midiNote) on the sequence: nothing when it throws, else the note is
\* appended to the melody of the sequence, if there is one
harmonizeNoteMelody(seq, ready, wref, midiNote) ==
  IF harmonizeNoteRealTimeThrows(ready, wref) \/ ~seq.exists THEN seq
  ELSE [seq EXCEPT !.melody = Append(@, midiNote)]

\* worker.onmessage with { type: 'Loaded' }
HookLoaded(w) ==
  /\ Alive(w)
  /\ ~workers[w].loaded
  /\ workers' = [workers EXCEPT ![w].loaded = TRUE]
  /\ hIsReady' = TRUE
  /\ hIsLoading' = FALSE
  /\ hError' = FALSE
  /\ UNCHANGED <<isRealTimeMode, currentHarmony, workerRef, postCount, sequence,
                 lastHarmonize>>

\* worker.onerror
HookError(w) ==
  /\ Alive(w)
  /\ hIsReady' = FALSE
  /\ hIsLoading' = FALSE
  /\ hError' = TRUE
  /\ UNCHANGED <<isRealTimeMode, currentHarmony, workerRef, workers, postCount, sequence,
                 lastHarmonize>>

\* the harmony service answers the oldest request of loaded worker w
HookResponds(w, notes) ==
  /\ Alive(w)
  /\ workers[w].loaded
  /\ workers[w].inbox # <<>>
  /\ workers' = [workers EXCEPT ![w].inbox = Tail(@), ![w].outbox = Append(@, notes)]
  /\ UNCHANGED <<hIsReady, hIsLoading, hError, isRealTimeMode, currentHarmony, workerRef,
                 postCount, sequence, lastHarmonize>>

\* worker.onmessage with { type: 'Notes', notes }: handleHarmonyReceived
HookNotes(w) ==
  /\ Alive(w)
  /\ workers[w].outbox # <<>>
  /\ workers' = [workers EXCEPT ![w].outbox = Tail(@)]
  /\ currentHarmony' = handleHarmonyReceived(currentHarmony, Head(workers[w].outbox))
  /\ sequence' = handleHarmonyReceivedSequence(sequence, isRealTimeMode,
                                               Head(workers[w].outbox))
  /\ UNCHANGED <<hIsReady, hIsLoading, hError, isRealTimeMode, workerRef, postCount,
                 lastHarmonize>>

\* toggleRealTimeMode(), the render, and the worker effect, which runs again because
\* handleHarmonyReceived changed with isRealTimeMode: the referenced worker is terminated
\* and the next one created, unless `new Worker` throws
ToggleRealTimeMode(workerCreated) ==
  /\ workerRef + 1 \in DOMAIN workers
  /\ isRealTimeMode' = ~isRealTimeMode
  /\ currentHarmony' = toggleRealTimeModeHarmony(isRealTimeMode, currentHarmony)
  /\ IF workerCreated
     THEN /\ workers' = ReplacedWorkers(workers, workerRef)
          /\ workerRef' = workerRef + 1
          /\ hIsLoading' = TRUE
          /\ hError' = FALSE
          /\ UNCHANGED hIsReady
     ELSE /\ workers' = IF workerRef # 0
                        THEN [workers EXCEPT ![workerRef].terminated = TRUE]
                        ELSE workers
          /\ hIsReady' = FALSE
          /\ hIsLoading' = FALSE
          /\ hError' = TRUE
          /\ UNCHANGED workerRef
  /\ UNCHANGED <<postCount, sequence, lastHarmonize>>

\* harmonizeNote(midiNote)
HarmonizeNote(midiNote) ==
  /\ sequence' = harmonizeNoteMelody(sequence, hIsReady, workerRef, midiNote)
  /\ IF harmonizeNoteRealTimeThrows(hIsReady, workerRef)
     THEN /\ lastHarmonize' = "Harmonizer not ready"
          /\ UNCHANGED <<workers, postCount>>
     ELSE /\ postCount < MaxPosts
          /\ workers' = postMessage(workers, workerRef, midiNote)
          /\ postCount' = postCount + 1
          /\ lastHarmonize' = "posted"
  /\ UNCHANGED <<hIsReady, hIsLoading, hError, isRealTimeMode, currentHarmony, workerRef>>

\* harmonizeNoteRealTime(midiNote)
HarmonizeNoteRealTime(midiNote) ==
  /\ IF harmonizeNoteRealTimeThrows(hIsReady, workerRef)
     THEN /\ lastHarmonize' = "Harmonizer not ready"
          /\ UNCHANGED <<workers, postCount>>
     ELSE /\ postCount < MaxPosts
          /\ workers' = postMessage(workers, workerRef, midiNote)
          /\ postCount' = postCount + 1
          /\ lastHarmonize' = "posted"
  /\ UNCHANGED <<hIsReady, hIsLoading, hError, isRealTimeMode, currentHarmony, workerRef,
                 sequence>>

\* startNewSequence(title)
StartNewSequence ==
  /\ sequence' = [exists |-> TRUE, melody |-> <<>>, harmonies |-> <<>>]
  /\ UNCHANGED <<hookVars, postCount, lastHarmonize>>

\* clearSequence()
ClearSequence ==
  /\ sequence' = NoSequence
  /\ UNCHANGED <<hookVars, postCount, lastHarmonize>>

(***************************************************************************)
(* Inputs of the session                                                   *)
(***************************************************************************)
ResponseInputs == { <<60, 64, 67, 72>>, <<72, 67, 64>>, <<76, 72, 67, 64, 60>> }

\* index-tip heights: above the image, near the bottom, the bottom
YInputs == { -2, PitchGrid - 1, PitchGrid }
TipX == 3

OpenShape == <<-1, -1, -1, -1>>
FistShape == <<1, 1, 1, 1>>
SplitShape == <<-1, -1, 1, 1>>
MissingTip == 9

\* a hand of n landmarks with its index tip at (TipX, y); shape[k] is finger k's tip
\* height relative to its pip joint, or MissingTip
MakeHand(label, n, y, shape) ==
  [ label |-> label,
    landmarks |->
      [ j \in 1..n |->
          LET i == j - 1 IN
          CASE i = 8 -> IF shape[1] = MissingTip THEN MissingLandmark ELSE Landmark(TipX, y)
            [] i = 6 -> Landmark(TipX, y - shape[1])
            [] i \in {12, 16, 20} ->
                 IF shape[i \div 4 - 1] = MissingTip THEN MissingLandmark
                 ELSE Landmark(TipX, y + shape[i \div 4 - 1])
            [] OTHER -> Landmark(TipX, y) ] ]

ShapedHands(label) ==
  {MakeHand(label, 21, y, shape) : y \in YInputs, shape \in {OpenShape, FistShape}}
  \cup {MakeHand(label, 21, PitchGrid - 1, SplitShape)}

PlainHands(label) == {MakeHand(label, 21, -2, OpenShape)}

\* hands no role resolves or stores: an unlabelled one, one of five landmarks, one
\* without its index tip
OddHands(label) ==
  { MakeHand("Unknown", 21, PitchGrid - 1, OpenShape),
    MakeHand(label, 5, PitchGrid - 1, OpenShape),
    MakeHand(label, 21, PitchGrid - 1, <<MissingTip, -1, -1, -1>>) }

\* frames of zero, one or two hands; the hands labelled `shaped` vary in gesture
FramesOf(shaped, plain) ==
  {<<>>}
  \cup {<<h>> : h \in ShapedHands(shaped) \cup PlainHands(plain) \cup OddHands(shaped)}
  \cup {<<a, b>> : a \in ShapedHands(shaped), b \in PlainHands(plain)}
  \cup {<<b, a>> : a \in ShapedHands(shaped), b \in PlainHands(plain)}

\* the gesturing hand is the one the detector labels opposite to the preference
FrameInputs ==
  [pref \in {"left", "right"} |->
     IF pref = "right" THEN FramesOf("Left", "Right") ELSE FramesOf("Right", "Left")]

\* what the forEach of onResults leaves for each frame, per hand preference
FrameData ==
  [pref \in {"left", "right"} |-> {HandData(hands, pref) : hands \in FrameInputs[pref]}]

(***************************************************************************)
(* Specifications                                                          *)
(***************************************************************************)
WorkerIds == 1..3

EngineInit ==
  /\ isInitialized = FALSE
  /\ audioContext = "null"
  /\ contextsCreated = 0
  /\ masterGain = NullGain
  /\ currentVoices = NoVoices
  /\ voices = <<>>
  /\ currentTime = 0
  /\ pendingPlay = <<>>
  /\ lastPlay = [result |-> "none", chord |-> <<>>]

\* the hook after its first render and effects: the first worker created, or `new Worker`
\* thrown
HookInit ==
  /\ isRealTimeMode = FALSE
  /\ currentHarmony = NoHarmony
  /\ hIsReady = FALSE
  /\ \/ /\ workerRef = 1
        /\ workers = [w \in WorkerIds |-> IF w = 1 THEN NewWorker ELSE NoWorker]
        /\ hIsLoading = TRUE
        /\ hError = FALSE
     \/ /\ workerRef = 0
        /\ workers = [w \in WorkerIds |-> NoWorker]
        /\ hIsLoading = FALSE
        /\ hError = TRUE

TrackerInit ==
  /\ handPreference \in {"left", "right"}
  /\ controlHand = [x |-> PitchGrid \div 2, y |-> PitchGrid \div 2, detected |-> FALSE,
                    vowel |-> "NONE"]
  /\ volumeHand = [y |-> PitchGrid \div 2, detected |-> FALSE]
  /\ lastPlayedNoteRef = null
  /\ postCount = 0
  /\ tIsLoading = TRUE
  /\ tError = FALSE

\* no sequence started, no hook or engine call made
CallersIdle == sequence = NoSequence /\ lastHarmonize = "none" /\ lastCall = NoCall

ProbeIdle ==
  /\ probeLo = 0 /\ probeHi = 0 /\ results = <<>> /\ frameRaised = FALSE
  /\ CallersIdle

\* the session: frames, the harmony worker, the engine driven by the effects
Init == EngineInit /\ HookInit /\ TrackerInit /\ ProbeIdle

OnFrame == \E data \in FrameData[handPreference] : Frame(data)
OnLoaded == \E w \in WorkerIds, workerCreated \in BOOLEAN : WorkerLoaded(w, workerCreated)
OnError == \E w \in WorkerIds : WorkerError(w)
OnRequest == \E w \in WorkerIds, notes \in ResponseInputs : WorkerResponds(w, notes)
OnNotes == \E w \in WorkerIds : DeliverNotes(w)

Next ==
  \/ (OnFrame /\ UNCHANGED probeVars)
  \/ (OnLoaded /\ UNCHANGED probeVars)
  \/ (OnError /\ UNCHANGED probeVars)
  \/ (OnRequest /\ UNCHANGED probeVars)
  \/ (OnNotes /\ UNCHANGED probeVars)
  \/ (CameraLoaded /\ UNCHANGED probeVars)
  \/ (CameraFails /\ UNCHANGED probeVars)
  \/ (ResumeResolves /\ UNCHANGED <<hookVars, trackerVars, probeVars>>)
  \/ (ResumeRejects /\ UNCHANGED <<hookVars, trackerVars, probeVars>>)

Spec == Init /\ [][Next]_vars

\* the two controls: a session whose frames vary the height of either hand
ControlsControlHands(label) ==
  {MakeHand(label, 21, y, OpenShape) : y \in {PitchGrid - 1, PitchGrid}}
  \cup {MakeHand(label, 21, PitchGrid, FistShape)}

ControlsVolumeHands(label) ==
  {MakeHand(label, 21, y, OpenShape) : y \in {-2, PitchGrid - 3}}

ControlsFramesOf(control, volume) ==
  {<<>>}
  \cup {<<h>> : h \in ControlsControlHands(control) \cup ControlsVolumeHands(volume)}
  \cup {<<a, b>> : a \in ControlsControlHands(control), b \in ControlsVolumeHands(volume)}

ControlsFrameData ==
  [pref \in {"left", "right"} |->
     {HandData(hands, pref) :
        hands \in IF pref = "right" THEN ControlsFramesOf("Left", "Right")
                  ELSE ControlsFramesOf("Right", "Left")}]

OnControlsFrame == \E data \in ControlsFrameData[handPreference] : Frame(data)

NextControls ==
  \/ (OnControlsFrame /\ UNCHANGED probeVars)
  \/ (OnLoaded /\ UNCHANGED probeVars)
  \/ (OnError /\ UNCHANGED probeVars)
  \/ (OnRequest /\ UNCHANGED probeVars)
  \/ (OnNotes /\ UNCHANGED probeVars)
  \/ (CameraLoaded /\ UNCHANGED probeVars)
  \/ (CameraFails /\ UNCHANGED probeVars)
  \/ (ResumeResolves /\ UNCHANGED <<hookVars, trackerVars, probeVars>>)
  \/ (ResumeRejects /\ UNCHANGED <<hookVars, trackerVars, probeVars>>)

SpecControls == Init /\ [][NextControls]_vars

\* a held note: once the control hand shows, every frame shows it open at one height;
\* the service answers every request with a chord; the audio context can start
HoldFrameData ==
  [pref \in {"left", "right"} |->
     LET control == IF pref = "right" THEN "Left" ELSE "Right"
         volume == IF pref = "right" THEN "Right" ELSE "Left"
         held == MakeHand(control, 21, PitchGrid - 1, OpenShape)
     IN {HandData(hands, pref) :
           hands \in {<<held>>} \cup {<<held, v>> : v \in ControlsVolumeHands(volume)}}]

IdleFrameData ==
  [pref \in {"left", "right"} |->
     LET volume == IF pref = "right" THEN "Right" ELSE "Left"
     IN {HandData(hands, pref) :
           hands \in {<<>>} \cup {<<v>> : v \in ControlsVolumeHands(volume)}}]

OnHoldFrame == \E data \in HoldFrameData[handPreference] : Frame(data)

OnIdleFrame ==
  /\ ~controlHand.detected
  /\ \E data \in IdleFrameData[handPreference] : Frame(data)

OnChordResponse ==
  \E w \in WorkerIds, notes \in {n \in ResponseInputs : Len(n) >= 4} :
    WorkerResponds(w, notes)

NextHold ==
  \/ (OnHoldFrame /\ UNCHANGED probeVars)
  \/ (OnIdleFrame /\ UNCHANGED probeVars)
  \/ (OnLoaded /\ UNCHANGED probeVars)
  \/ (OnChordResponse /\ UNCHANGED probeVars)
  \/ (OnNotes /\ UNCHANGED probeVars)
  \/ (CameraLoaded /\ UNCHANGED probeVars)
  \/ (ResumeResolves /\ UNCHANGED <<hookVars, trackerVars, probeVars>>)

\* every worker that can load does, every request is answered, every answer delivered,
\* and a suspended context resumes
SpecHold ==
  /\ Init /\ [][NextHold]_vars
  /\ WF_vars(OnLoaded /\ UNCHANGED probeVars)
  /\ WF_vars(OnChordResponse /\ UNCHANGED probeVars)
  /\ WF_vars(OnNotes /\ UNCHANGED probeVars)
  /\ WF_vars(ResumeResolves /\ UNCHANGED <<hookVars, trackerVars, probeVars>>)

\* overlapping engine calls: every call is recorded as the one issued last
IssuePlayChord ==
  \E chord \in ChordInputs :
    /\ playChord(chord)
    /\ lastCall' = [op |-> "playChord", chord |-> chord]

IssueStopAll ==
  /\ StopAll
  /\ lastCall' = [op |-> "stopAll", chord |-> <<>>]

OverlapRest ==
  UNCHANGED <<hookVars, trackerVars, probeLo, probeHi, results, frameRaised, sequence,
              lastHarmonize>>

NextOverlap ==
  \/ (IssuePlayChord /\ OverlapRest)
  \/ (IssueStopAll /\ OverlapRest)
  \/ (ResumeResolves /\ OverlapRest /\ UNCHANGED lastCall)
  \/ (ResumeRejects /\ OverlapRest /\ UNCHANGED lastCall)
  \/ (Tick /\ OverlapRest /\ UNCHANGED lastCall)

SpecOverlap == Init /\ [][NextOverlap]_vars

\* the hook under any caller: notes to harmonize, mode toggles, sequences
NoteInputs == {64}

HookRest ==
  UNCHANGED <<engineVars, handPreference, controlHand, volumeHand, lastPlayedNoteRef,
              tIsLoading, tError, probeLo, probeHi, results, frameRaised, lastCall>>

NextHook ==
  \/ (\E w \in WorkerIds : HookLoaded(w)) /\ HookRest
  \/ (\E w \in WorkerIds : HookError(w)) /\ HookRest
  \/ (\E w \in WorkerIds, notes \in ResponseInputs : HookResponds(w, notes)) /\ HookRest
  \/ (\E w \in WorkerIds : HookNotes(w)) /\ HookRest
  \/ (\E workerCreated \in BOOLEAN : ToggleRealTimeMode(workerCreated)) /\ HookRest
  \/ (\E midiNote \in NoteInputs : HarmonizeNote(midiNote)) /\ HookRest
  \/ (\E midiNote \in NoteInputs : HarmonizeNoteRealTime(midiNote)) /\ HookRest
  \/ StartNewSequence /\ HookRest
  \/ ClearSequence /\ HookRest

SpecHook == Init /\ [][NextHook]_vars

\* the engine under any sequence of calls
InitEngine == EngineInit /\ HookInit /\ TrackerInit /\ ProbeIdle

CallPlayChord == \E chord \in ChordInputs : playChord(chord)

CallSetMasterVolume == \E volume \in EngineVolumeInputs : SetMasterVolume(volume)

NextEngine ==
  \/ (CallPlayChord /\ UNCHANGED <<hookVars, trackerVars, probeVars>>)
  \/ (ResumeResolves /\ UNCHANGED <<hookVars, trackerVars, probeVars>>)
  \/ (ResumeRejects /\ UNCHANGED <<hookVars, trackerVars, probeVars>>)
  \/ (StopAll /\ UNCHANGED <<hookVars, trackerVars, probeVars>>)
  \/ (CallSetMasterVolume /\ UNCHANGED <<hookVars, trackerVars, probeVars>>)
  \/ (Destroy /\ UNCHANGED <<hookVars, trackerVars, probeVars>>)
  \/ (Tick /\ UNCHANGED <<hookVars, trackerVars, probeVars>>)

SpecEngine == InitEngine /\ [][NextEngine]_vars

\* the master volume: an engine that plays one chord, under any volume requests
CallPlayChordOnce == voices = <<>> /\ playChord(<<72, 67, 64, 60>>)

CallSetMasterVolumeAny == \E volume \in VolumeInputs : SetMasterVolume(volume)

NextVolume ==
  \/ (CallPlayChordOnce /\ UNCHANGED <<hookVars, trackerVars, probeVars>>)
  \/ (ResumeResolves /\ UNCHANGED <<hookVars, trackerVars, probeVars>>)
  \/ (ResumeRejects /\ UNCHANGED <<hookVars, trackerVars, probeVars>>)
  \/ (CallSetMasterVolumeAny /\ UNCHANGED <<hookVars, trackerVars, probeVars>>)
  \/ (Destroy /\ UNCHANGED <<hookVars, trackerVars, probeVars>>)
  \/ (Tick /\ UNCHANGED <<hookVars, trackerVars, probeVars>>)

SpecVolume == InitEngine /\ [][NextVolume]_vars

(***************************************************************************)
(* The tracker on its own: onResults over frames whose hands are recorded  *)
(***************************************************************************)
\* finger shapes around the thresholds of detectVowel: three of four extended or folded,
\* a finger missing, two fingers missing, fingers level with their joints
TrackerShapes ==
  { OpenShape, FistShape, SplitShape,
    <<-1, -1, -1, 1>>, <<1, 1, 1, -1>>,
    <<-1, -1, -1, MissingTip>>, <<1, 1, MissingTip, 1>>,
    <<-1, -1, 1, MissingTip>>, <<-1, -1, MissingTip, MissingTip>>,
    <<0, 0, 0, 0>>, <<-1, -1, 0, 0>> }

\* landmark arrays shorter than a full hand
ShortHandLengths == {5, 9, 18, 20}

TrackerControlHands(label) ==
  {MakeHand(label, 21, PitchGrid - 1, shape) : shape \in TrackerShapes}
  \cup {MakeHand(label, 21, -2, shape) : shape \in {OpenShape, FistShape}}
  \cup {MakeHand(label, n, PitchGrid - 1, OpenShape) : n \in ShortHandLengths}
  \cup {MakeHand(label, 21, PitchGrid - 1, <<MissingTip, -1, -1, -1>>)}

TrackerVolumeHands(label) ==
  {MakeHand(label, 21, y, OpenShape) : y \in {1, PitchGrid - 3}}
  \cup {MakeHand(label, 5, 1, OpenShape)}

TrackerFramesOf(control, volume) ==
  {<<>>}
  \cup {<<h>> : h \in TrackerControlHands(control) \cup TrackerVolumeHands(volume)
                      \cup {MakeHand("Unknown", 21, PitchGrid - 1, OpenShape)}}
  \cup {<<a, b>> : a \in TrackerControlHands(control), b \in TrackerVolumeHands(volume)}
  \cup {<<b, a>> : a \in TrackerControlHands(control), b \in TrackerVolumeHands(volume)}

TrackerFrameInputs ==
  [pref \in {"left", "right"} |->
     IF pref = "right" THEN TrackerFramesOf("Left", "Right")
     ELSE TrackerFramesOf("Right", "Left")]

OnResults ==
  \E hands \in TrackerFrameInputs[handPreference] :
    /\ results' = hands
    /\ frameRaised' = FALSE
    /\ Frame(HandData(hands, handPreference))

\* a frame with an undefined landmark entry: the drawing loop raises, no state is set
OnResultsRaises ==
  \E hands \in TrackerFrameInputs[handPreference] :
    /\ processFrameStarted(tIsLoading, tError)
    /\ drawLandmarksRaises(hands)
    /\ frameRaised' = TRUE
    /\ UNCHANGED <<engineVars, hookVars, trackerVars, results>>

NextTracker ==
  \/ (OnResults /\ UNCHANGED <<probeLo, probeHi, sequence, lastHarmonize, lastCall>>)
  \/ (OnResultsRaises /\ UNCHANGED <<probeLo, probeHi, sequence, lastHarmonize, lastCall>>)
  \/ (CameraLoaded /\ UNCHANGED probeVars)
  \/ (CameraFails /\ UNCHANGED probeVars)

SpecTracker == Init /\ [][NextTracker]_vars

\* pitchToMidi on every pair of pitch positions of the grid
InitPitch ==
  /\ EngineInit /\ HookInit /\ TrackerInit
  /\ probeLo \in 0..PitchGrid
  /\ probeHi \in 0..PitchGrid
  /\ results = <<>>
  /\ frameRaised = FALSE
  /\ CallersIdle

Reprobe ==
  /\ probeLo' \in 0..PitchGrid
  /\ probeHi' \in 0..PitchGrid
  /\ UNCHANGED <<engineVars, hookVars, trackerVars, results, frameRaised, sequence,
                 lastHarmonize, lastCall>>

NextPitch == Reprobe

SpecPitch == InitPitch /\ [][NextPitch]_vars

(***************************************************************************)
(* Properties                                                              *)
(***************************************************************************)
ActiveVoices == Range(currentVoices)

\* the engine's voice set is exactly the four parts, each voice of its part's type and
\* tuned to its part's note of chord, with both oscillators started
HoldsChord(cur, vs, chord) ==
  /\ DOMAIN cur = PartSet
  /\ \A k \in 1..4 :
       /\ vs[cur[Parts[k]]].voiceType = Parts[k]
       /\ vs[cur[Parts[k]]].frequency = midiToFrequency(chord[k])
       /\ vs[cur[Parts[k]]].startAt # NotScheduled
       /\ vs[cur[Parts[k]]].stopAt = NotScheduled

FirstFour(notes) == SubSeq(notes, 1, 4)

\* this step runs the body of playChord (it constructs voices)
PlayChordRuns == Len(voices') > Len(voices)

\* this step delivers the oldest response of worker w to worker.onmessage
Delivered(w) == Alive(w) /\ Len(workers'[w].outbox) < Len(workers[w].outbox)

ValidGesture(ch) == ch.detected /\ ch.vowel # "NONE"

\* C1: in every reachable state of the engine, under any sequence of playChord, stopAll,
\* setMasterVolume and destroy calls, the voice set has 0 or 4 members, never 1, 2 or 3.
C1_ZeroOrFourVoices == Cardinality(DOMAIN currentVoices) \in {0, 4}

\* four voices held after a destroy and a later playChord, with a released set behind them
C1_Witness ==
  /\ Cardinality(DOMAIN currentVoices) = 4
  /\ Len(voices) = 8
  /\ audioContext = "closed"
  /\ masterGain.v1 = UnityGain

\* C2: when playChord completes the engine holds exactly four active voices keyed soprano,
\* alto, tenor and bass, each tuned to the note given for its part; and the call made for
\* a service response passes its first, second, third and fourth note in that order.
C2_PlayChordTunesParts ==
  [][ /\ PlayChordRuns =>
           /\ lastPlay'.result = "resolved"
           /\ HoldsChord(currentVoices', voices', lastPlay'.chord)
      /\ \A w \in DOMAIN workers :
           (Delivered(w) /\ Len(Head(workers[w].outbox)) >= 4) =>
              IF pendingPlay' # pendingPlay
              THEN pendingPlay'[Len(pendingPlay')] = FirstFour(Head(workers[w].outbox))
              ELSE lastPlay'.chord = FirstFour(Head(workers[w].outbox)) ]_vars

\* a five-note response has been played: its first four notes are the four parts
C2_Witness ==
  /\ lastPlay = [result |-> "resolved", chord |-> <<76, 72, 67, 64>>]
  /\ currentHarmony.soprano = 76
  /\ HoldsChord(currentVoices, voices, <<76, 72, 67, 64>>)

\* this step replaces a set of active voices by a new one
Replaces == currentVoices # NoVoices /\ PlayChordRuns

\* C3 as stated: when playChord replaces a set of voices, the prior set has faded to zero
\* and its oscillators have stopped before the oscillators of the new set start.
C3_ReleasedBeforeNewStarts ==
  [][ Replaces =>
        \A o \in ActiveVoices : \A n \in Range(currentVoices') :
          /\ voices'[o].stopAt <= voices'[n].startAt
          /\ ParamValue(voices'[o].gain, voices'[n].startAt) = 0 ]_vars

\* C3 amended: when playChord replaces a set of voices, the release of the prior set is
\* scheduled at the instant the new set starts: each prior voice ramps from its current
\* gain to zero over the release window, its oscillators stop at the end of that window
\* (one release window after the new oscillators start), and it leaves the voice set.
C3_ReleaseScheduledAtStart ==
  [][ Replaces =>
        \A o \in ActiveVoices : \A n \in Range(currentVoices') :
          /\ o # n
          /\ voices'[n].startAt = currentTime
          /\ voices'[o].stopAt = voices'[n].startAt + ReleaseTime
          /\ voices'[o].gain = Ramp(ParamValue(voices[o].gain, currentTime), currentTime,
                                    0, currentTime + ReleaseTime) ]_vars

\* a sounding set was replaced: it fades from the sustain level while the new set starts
C3_Witness ==
  /\ Len(voices) = 8
  /\ HoldsChord(currentVoices, voices, lastPlay.chord)
  /\ voices[5].startAt > 0
  /\ \A o \in 1..4 : /\ voices[o].stopAt = voices[5].startAt + ReleaseTime
                     /\ voices[o].gain.v0 = SustainLevel
                     /\ voices[o].gain.v1 = 0

\* this step stops active voices
StopsVoices == \E o \in ActiveVoices : voices'[o] # voices[o]

\* C4: stopAll never stops a voice abruptly: every active voice gets a gain ramp from its
\* current value to zero over the release window and its oscillators stop only at the end
\* of that window; afterwards none of them is in the voice set, which is empty unless a
\* playChord made new voices; and the voices of a playChord are new, never released ones.
C4_StopAllReleases ==
  [][ /\ StopsVoices =>
           /\ \A o \in ActiveVoices :
                /\ voices'[o].gain = Ramp(ParamValue(voices[o].gain, currentTime),
                                          currentTime, 0, currentTime + ReleaseTime)
                /\ voices'[o].stopAt = currentTime + ReleaseTime
           /\ Range(currentVoices') \cap ActiveVoices = {}
           /\ (~PlayChordRuns => currentVoices' = NoVoices)
      /\ PlayChordRuns =>
           /\ Range(currentVoices') \cap (1..Len(voices)) = {}
           /\ \A n \in Range(currentVoices') : voices'[n].stopAt = NotScheduled ]_vars

\* stopAll released a sounding set, and a later playChord made four new voices
C4_Witness ==
  /\ Len(voices) = 8
  /\ Range(currentVoices) = 5..8
  /\ \A o \in 1..4 : /\ voices[o].stopAt < voices[5].startAt + ReleaseTime
                     /\ voices[o].gain.v0 = SustainLevel
                     /\ voices[o].gain.v1 = 0
                     /\ voices[o].gain.t1 = voices[o].stopAt

\* C5: while the control hand stays detected with a non-NONE gesture on one quantized
\* note, at most one request is sent for it: a request is sent only for a note that
\* differs from the marker, the marker is set to it in the same step (before any response),
\* and once the marker equals the held note no step sends a request or changes the marker.
C5_OneRequestPerHeldNote ==
  [][ /\ postCount' > postCount =>
           /\ postCount' = postCount + 1
           /\ lastPlayedNoteRef' = pitchToMidi(currentPitch(controlHand'))
           /\ lastPlayedNoteRef' # lastPlayedNoteRef
           /\ workers'[workerRef].inbox =
                Append(workers[workerRef].inbox, lastPlayedNoteRef')
           /\ \A w \in DOMAIN workers : w # workerRef => workers'[w].inbox = workers[w].inbox
      /\ ( /\ ValidGesture(controlHand) /\ ValidGesture(controlHand')
           /\ pitchToMidi(currentPitch(controlHand')) = lastPlayedNoteRef )
         => (postCount' = postCount /\ lastPlayedNoteRef' = lastPlayedNoteRef) ]_vars

\* the hand moved and changed gesture on the note it had requested: still one request
C5_Witness ==
  /\ postCount = 1
  /\ controlHand = [x |-> TipX, y |-> PitchGrid - 1, detected |-> TRUE, vowel |-> "O"]
  /\ lastPlayedNoteRef = 60
  /\ workers[workerRef].inbox = <<60>>
  /\ workers[workerRef].loaded

\* C6: whenever the control hand stops being detected or its gesture becomes NONE, the
\* engine's active voices are released and cleared and the marker is cleared, whatever the
\* readiness and the outstanding requests; so the marker is null whenever there is no
\* valid gesture, and the next valid gesture of a ready harmonizer sends a request.
C6_SilenceOnGestureLoss ==
  [][ /\ (ValidGesture(controlHand) /\ ~ValidGesture(controlHand')) =>
           /\ currentVoices' = NoVoices
           /\ \A o \in ActiveVoices : voices'[o].stopAt = currentTime + ReleaseTime
           /\ lastPlayedNoteRef' = null
      /\ ~ValidGesture(controlHand') => lastPlayedNoteRef' = null
      /\ (~ValidGesture(controlHand) /\ ValidGesture(controlHand') /\ hIsReady) =>
           /\ postCount' = postCount + 1
           /\ lastPlayedNoteRef' = pitchToMidi(currentPitch(controlHand')) ]_vars

\* the same note was requested twice, before and after a silence that cleared the marker
C6_Witness ==
  /\ ValidGesture(controlHand)
  /\ postCount = 2
  /\ lastPlayedNoteRef = 60
  /\ workers[workerRef].inbox = <<60, 60>>

\* C7: every harmonization request is sent in a state where the control hand is detected
\* and its gesture class is not NONE.
C7_RequestsNeedValidGesture ==
  [][ (\/ postCount' > postCount
       \/ \E w \in DOMAIN workers : Len(workers'[w].inbox) > Len(workers[w].inbox))
      => /\ controlHand'.detected
         /\ controlHand'.vowel \in {"A", "O"} ]_vars

\* a request for the top note is waiting at the worker
C7_Witness ==
  /\ postCount = 1
  /\ workers[workerRef].inbox = <<76>>
  /\ controlHand.vowel = "A"

\* C8: every response of at least four notes is forwarded as the new chord with no
\* staleness check, one new chord per response in arrival order; on an initialized engine
\* it is played at once, also when silence was requested since its request was sent.
C8_ResponsesAlwaysApplied ==
  [][ \A w \in DOMAIN workers :
        (Delivered(w) /\ Len(Head(workers[w].outbox)) >= 4) =>
           /\ currentHarmony'.id = currentHarmony.id + 1
           /\ <<currentHarmony'.soprano, currentHarmony'.alto, currentHarmony'.tenor,
                currentHarmony'.bass>> = FirstFour(Head(workers[w].outbox))
           /\ isInitialized => HoldsChord(currentVoices', voices',
                                          FirstFour(Head(workers[w].outbox)))
           /\ ~isInitialized =>
                \/ lastPlay'.chord = FirstFour(Head(workers[w].outbox))
                \/ pendingPlay' = Append(pendingPlay, FirstFour(Head(workers[w].outbox))) ]_vars

\* sound restarted by a response that arrived after the silence: four voices play with no
\* control hand and no note recorded as submitted, a released set behind them
C8_Witness ==
  /\ ~controlHand.detected
  /\ lastPlayedNoteRef = null
  /\ Len(voices) = 8
  /\ HoldsChord(currentVoices, voices, lastPlay.chord)

\* C9: a response of at least four notes replaces all four parts of the current harmony
\* by its first four notes, and a shorter response leaves the current harmony unchanged.
C9_HarmonyReplacedWhole ==
  [][ \A w \in DOMAIN workers :
        Delivered(w) =>
          IF Len(Head(workers[w].outbox)) >= 4
          THEN /\ currentHarmony'.soprano = Head(workers[w].outbox)[1]
               /\ currentHarmony'.alto = Head(workers[w].outbox)[2]
               /\ currentHarmony'.tenor = Head(workers[w].outbox)[3]
               /\ currentHarmony'.bass = Head(workers[w].outbox)[4]
          ELSE currentHarmony' = currentHarmony ]_vars

\* both requests were answered and delivered: the five-note response gave the harmony
\* its four parts, and the other response, a three-note one, changed nothing
C9_Witness ==
  /\ currentHarmony = [id |-> 1, soprano |-> 76, alto |-> 72, tenor |-> 67, bass |-> 64]
  /\ postCount = 2
  /\ \A w \in DOMAIN workers : workers[w].inbox = <<>> /\ workers[w].outbox = <<>>

\* the 15 natural notes from C4 upwards
FifteenNoteRange == {60, 62, 64, 65, 67, 69, 71, 72, 74, 76, 77, 79, 81, 83, 84}

\* C10: for all pitch positions in [0,1], pitchToMidi is monotonically non-decreasing and
\* its result is a note of the scale, within the 15-note diatonic range.
C10_QuantisationMonotoneInRange ==
  /\ probeLo <= probeHi => pitchToMidi(probeLo) <= pitchToMidi(probeHi)
  /\ pitchToMidi(probeLo) \in Range(whiteKeys)
  /\ pitchToMidi(probeLo) \in FifteenNoteRange

\* two positions quantised to different notes, the higher one to the top note
C10_Witness ==
  /\ probeLo < probeHi
  /\ probeHi = PitchGrid
  /\ pitchToMidi(probeLo) = 67
  /\ pitchToMidi(probeHi) = 76

\* the 15 natural notes from C4 upwards, in ascending order
FifteenNoteScale == <<60, 62, 64, 65, 67, 69, 71, 72, 74, 76, 77, 79, 81, 83, 84>>

\* the 10 natural notes from C4 to E5, in ascending order
TenNoteScale == <<60, 62, 64, 65, 67, 69, 71, 72, 74, 76>>

\* C11 as stated: the scale of pitchToMidi is exactly the 15 natural notes of the 4th to
\* 5th octave in ascending order, and the note selected is the one at index
\* floor(pitchPosition * 14) clamped to [0,14].
C11_FifteenNoteScale ==
  /\ whiteKeys = FifteenNoteScale
  /\ pitchToMidi(probeLo) =
       FifteenNoteScale[Max(0, Min(14, (probeLo * 14) \div PitchGrid)) + 1]

\* C11 amended: the scale of pitchToMidi is exactly the 10 natural notes from C4 to E5 in
\* ascending order, and the note selected is the one at index floor(pitchPosition * 9),
\* which lies in [0,9] for every pitchPosition in [0,1] without any clamp.
C11_TenNoteScale ==
  /\ whiteKeys = TenNoteScale
  /\ keyIndex(probeLo) \in 0..9
  /\ pitchToMidi(probeLo) = TenNoteScale[(probeLo * 9) \div PitchGrid + 1]

\* the middle position selects G4, the fifth of ten notes, where a 15-note scale gives C5
C11_Witness ==
  /\ probeLo = PitchGrid \div 2
  /\ pitchToMidi(probeLo) = 67
  /\ FifteenNoteScale[(probeLo * 14) \div PitchGrid + 1] = 72

ScaleLowest == CHOOSE n \in Range(whiteKeys) : \A m \in Range(whiteKeys) : n <= m
ScaleHighest == CHOOSE n \in Range(whiteKeys) : \A m \in Range(whiteKeys) : n >= m

\* C12: pitchPosition 0 is quantized to the lowest note of the scale and pitchPosition 1
\* to the highest note of the scale.
C12_EndsOfScale ==
  /\ probeLo = 0 => pitchToMidi(probeLo) = ScaleLowest
  /\ probeHi = PitchGrid => pitchToMidi(probeHi) = ScaleHighest

\* both ends probed: the bottom position gives C4 and the top position E5
C12_Witness ==
  /\ probeLo = 0
  /\ probeHi = PitchGrid
  /\ pitchToMidi(probeLo) = 60
  /\ pitchToMidi(probeHi) = 76
  /\ ScaleLowest = 60
  /\ ScaleHighest = 76

\* the detector's label of the hand that plays each role, as the roles are described
ControlLabel == IF handPreference = "right" THEN "Left" ELSE "Right"
VolumeLabel == IF handPreference = "right" THEN "Right" ELSE "Left"

\* a hand of the frame that onResults can store: labelled l, index tip among its landmarks
Storable(hand, l) ==
  /\ hand.label = l
  /\ Len(hand.landmarks) > 8
  /\ hand.landmarks[9].present

\* the four (tip, pip) pairs of a landmark array and the class they give by the
\* three-of-four rule
PairsOf(landmarks) ==
  [k \in 1..4 |-> [tip |-> At(landmarks, 4 * k + 4), pip |-> At(landmarks, 4 * k + 2)]]
ValidPairs(landmarks) ==
  {k \in 1..4 : PairsOf(landmarks)[k].tip.present /\ PairsOf(landmarks)[k].pip.present}
ExtendedPairs(landmarks) ==
  {k \in ValidPairs(landmarks) : PairsOf(landmarks)[k].tip.y < PairsOf(landmarks)[k].pip.y}
FoldedPairs(landmarks) ==
  {k \in ValidPairs(landmarks) : PairsOf(landmarks)[k].tip.y > PairsOf(landmarks)[k].pip.y}
ThreeOfFour(landmarks) ==
  IF Cardinality(ValidPairs(landmarks)) < 3 THEN "NONE"
  ELSE IF Cardinality(ExtendedPairs(landmarks)) >= 3 THEN "A"
  ELSE IF Cardinality(FoldedPairs(landmarks)) >= 3 THEN "O"
  ELSE "NONE"

\* C13 as stated: the gesture class of the control hand is given by its four (tip, pip)
\* pairs alone: fewer than 3 valid pairs is NONE; otherwise at least 3 extended is 'A',
\* else at least 3 folded is 'O', else NONE.
C13_ThreeOfFourRule ==
  \A i \in DOMAIN results :
    (controlHand.detected /\ Storable(results[i], ControlLabel)) =>
       controlHand.vowel = ThreeOfFour(results[i].landmarks)

\* C13 amended: a hand of fewer than 21 landmarks is NONE whatever its pairs; a hand of
\* 21 landmarks is classified from its four (tip, pip) pairs: fewer than 3 valid pairs is
\* NONE; otherwise at least 3 extended is 'A', else at least 3 folded is 'O', else NONE;
\* so all four extended is 'A', all four folded is 'O' and a 2/2 split is NONE.
C13_ThreeOfFourRuleOfFullHand ==
  \A i \in DOMAIN results :
    (controlHand.detected /\ Storable(results[i], ControlLabel)) =>
       /\ Len(results[i].landmarks) < 21 => controlHand.vowel = "NONE"
       /\ Len(results[i].landmarks) >= 21 =>
            controlHand.vowel = ThreeOfFour(results[i].landmarks)
       /\ results[i] = MakeHand(ControlLabel, 21, controlHand.y, OpenShape) =>
            controlHand.vowel = "A"
       /\ results[i] = MakeHand(ControlLabel, 21, controlHand.y, FistShape) =>
            controlHand.vowel = "O"
       /\ results[i] = MakeHand(ControlLabel, 21, controlHand.y, SplitShape) =>
            controlHand.vowel = "NONE"

\* three folded fingers and one missing tip are classified 'O'
C13_Witness ==
  /\ results = << MakeHand(ControlLabel, 21, PitchGrid - 1, <<1, 1, MissingTip, 1>>) >>
  /\ controlHand.detected
  /\ controlHand.vowel = "O"

\* C14: roles invert the detector's label: with control hand 'right' a hand labelled
\* 'Left' gets the control role and one labelled 'Right' the volume role, with 'left' the
\* opposite; a hand with any other label gets neither role and no hand gets both.
C14_RolesInvertLabel ==
  /\ controlHand.detected <=> \E i \in DOMAIN results : Storable(results[i], ControlLabel)
  /\ volumeHand.detected <=> \E i \in DOMAIN results : Storable(results[i], VolumeLabel)
  /\ controlHand.detected =>
       \E i \in DOMAIN results : /\ results[i].label = ControlLabel
                                 /\ results[i].landmarks[9].y = controlHand.y
  /\ volumeHand.detected =>
       \E i \in DOMAIN results : /\ results[i].label = VolumeLabel
                                 /\ results[i].landmarks[9].y = volumeHand.y
  /\ \A i \in DOMAIN results :
       /\ ~(isControlHand(results[i].label, handPreference)
            /\ isVolumeHand(results[i].label, handPreference))
       /\ results[i].label \notin {"Left", "Right"} =>
            /\ ~isControlHand(results[i].label, handPreference)
            /\ ~isVolumeHand(results[i].label, handPreference)
  /\ (Len(results) = 1 /\ results[1].label \notin {"Left", "Right"}) =>
       (~controlHand.detected /\ ~volumeHand.detected)

\* with control hand 'right', the hand labelled 'Right' set the volume and the hand
\* labelled 'Left' the pitch
C14_Witness ==
  /\ handPreference = "right"
  /\ results = << MakeHand("Right", 21, 1, OpenShape),
                  MakeHand("Left", 21, PitchGrid - 1, FistShape) >>
  /\ controlHand = [x |-> TipX, y |-> PitchGrid - 1, detected |-> TRUE, vowel |-> "O"]
  /\ volumeHand = [y |-> 1, detected |-> TRUE]

\* C15: on a frame in which a role has no assigned hand, a frame with no hands included,
\* the role's detected flag becomes false and its stored position (control x and y,
\* volume y) keeps its value; it is not reset to a default.
C15_PositionRetained ==
  [][ /\ (results' # results /\ ~\E i \in DOMAIN results' : results'[i].label = ControlLabel)
         => /\ ~controlHand'.detected
            /\ controlHand'.x = controlHand.x
            /\ controlHand'.y = controlHand.y
      /\ (results' # results /\ ~\E i \in DOMAIN results' : results'[i].label = VolumeLabel)
         => /\ ~volumeHand'.detected
            /\ volumeHand'.y = volumeHand.y
      /\ ~controlHand'.detected =>
            (controlHand'.x = controlHand.x /\ controlHand'.y = controlHand.y)
      /\ ~volumeHand'.detected => volumeHand'.y = volumeHand.y ]_vars

\* after a frame with no hands both roles are undetected and hold the positions of the
\* hands seen before, not the initial ones
C15_Witness ==
  /\ results = <<>>
  /\ ~controlHand.detected
  /\ controlHand.x = TipX
  /\ controlHand.y = -2
  /\ ~volumeHand.detected
  /\ volumeHand.y = 1

\* C16 as stated: on a frame in which the control role has no assigned hand, the gesture
\* class of the control state is left unchanged; only the detected flag changes.
C16_ClassRetained ==
  [][ (results' # results /\ ~\E i \in DOMAIN results' : results'[i].label = ControlLabel)
      => /\ ~controlHand'.detected
         /\ controlHand'.vowel = controlHand.vowel ]_vars

\* C16 amended: on a frame in which the control role has no assigned hand, the detected
\* flag becomes false and the gesture class is reset to NONE; the position is kept. So
\* the class is NONE whenever the control hand is not detected.
C16_ClassResetToNone ==
  [][ /\ (results' # results /\ ~\E i \in DOMAIN results' : results'[i].label = ControlLabel)
         => /\ ~controlHand'.detected
            /\ controlHand'.vowel = "NONE"
            /\ controlHand'.x = controlHand.x
            /\ controlHand'.y = controlHand.y
      /\ ~controlHand'.detected => controlHand'.vowel = "NONE" ]_vars

\* the control hand, last seen above the image with an open or closed hand, is lost on
\* a frame that shows the volume hand only: its class is NONE
C16_Witness ==
  /\ results = << MakeHand(VolumeLabel, 21, 1, OpenShape) >>
  /\ volumeHand.detected
  /\ controlHand = [x |-> TipX, y |-> -2, detected |-> FALSE, vowel |-> "NONE"]

VolumeHandLost == volumeHand.detected /\ ~volumeHand'.detected

\* C17 as stated: when the volume hand stops being detected the master-volume target
\* stays where the hand's last position put it; no default target is requested.
C17_TargetHeldOnLoss ==
  [][ (VolumeHandLost /\ isInitialized /\ masterGain.node) =>
        masterGain'.v1 = masterGain.v1 ]_vars

\* C17 amended: when the volume hand stops being detected its stored position is kept,
\* but the volume effect requests the default target 0.5: on an initialized engine the
\* master gain ramps from its current value to 0.5 over the transition window; when the
\* hand is detected again the target is the value of its new position.
C17_DefaultRequestedOnLoss ==
  [][ /\ VolumeHandLost =>
           /\ volumeHand'.y = volumeHand.y
           /\ IF isInitialized /\ masterGain.node
              THEN /\ masterGain'.v1 = DefaultMasterVolume
                   /\ masterGain'.t1 = currentTime + TransitionTime
                   /\ masterGain'.v0 = ParamValue(masterGain, currentTime)
              ELSE masterGain' = masterGain
      /\ (~volumeHand.detected /\ volumeHand'.detected /\ isInitialized /\ masterGain.node)
           => masterGain'.v1 = getVolumeFromY(volumeHand'.y) ]_vars

\* the volume hand was last seen at the top of the image (volume 1.0) and is lost: the
\* engine has been asked to ramp to 0.5
C17_Witness ==
  /\ ~volumeHand.detected
  /\ volumeHand.y = -2
  /\ getVolumeFromY(volumeHand.y) = UnityGain
  /\ isInitialized
  /\ masterGain.v1 = DefaultMasterVolume
  /\ masterGain.t1 = TransitionTime

\* C18: the master volume, scheduled target and instantaneous value alike, is in [0,1]
\* in every reachable state: setMasterVolume clamps any target, below 0 or above 1
\* included, and the initial value is in [0,1].
C18_MasterVolumeInUnitRange ==
  /\ getMasterVolume \in 0..UnityGain
  /\ masterGain.node =>
       /\ masterGain.v0 \in 0..UnityGain
       /\ masterGain.v1 \in 0..UnityGain
       /\ \A t \in 0..(MaxTime + TransitionTime) : ParamValue(masterGain, t) \in 0..UnityGain

\* a target above 1 was reached as 1.0, and a target below 0 is now scheduled as 0
C18_Witness ==
  /\ masterGain.node
  /\ masterGain.v0 = UnityGain
  /\ masterGain.v1 = 0
  /\ masterGain.t0 >= TransitionTime

\* C19: every setMasterVolume call on an initialized engine changes the master gain only
\* through a linear ramp that starts now at the gain's current instantaneous value and
\* reaches the clamped target at the end of the transition window; it never schedules a
\* step, also when it interrupts an earlier ramp still in progress.
C19_VolumeChangesByRamp ==
  [][ (masterGain.node /\ masterGain' # masterGain) =>
        /\ masterGain'.t0 = currentTime
        /\ masterGain'.v0 = ParamValue(masterGain, currentTime)
        /\ masterGain'.t1 = currentTime + TransitionTime
        /\ masterGain'.v1 \in 0..UnityGain
        /\ ParamValue(masterGain', currentTime) = ParamValue(masterGain, currentTime)
        /\ \A t \in currentTime..(currentTime + TransitionTime - 1) :
             LET step == ParamValue(masterGain', t + 1) - ParamValue(masterGain', t)
                 whole == masterGain'.v1 - masterGain'.v0
             IN IF whole >= 0 THEN step \in 0..((whole + TransitionTime - 1) \div TransitionTime)
                ELSE -step \in 0..((-whole + TransitionTime - 1) \div TransitionTime) ]_vars

\* a ramp from 0.5 to 1.0 was interrupted half way: the new ramp starts at 0.75
C19_Witness ==
  masterGain = [node |-> TRUE, t0 |-> 1, v0 |-> 75, t1 |-> 1 + TransitionTime, v1 |-> 0]

\* the target the volume effect asked for last
LatestVolumeRequest ==
  IF volumeHand.detected THEN getVolumeFromY(volumeHand.y) ELSE DefaultMasterVolume

\* C20: the latest volume request always wins: the master gain's scheduled target is the
\* clamped value of the most recent request, and no request is lost.
C20_LatestRequestWins ==
  masterGain.node => masterGain.v1 = Max(0, Min(UnityGain, LatestVolumeRequest))

\* this step is a playChord call on an engine that is not initialized
FirstPlayChord ==
  /\ ~isInitialized
  /\ lastPlay' # lastPlay \/ Len(pendingPlay') > Len(pendingPlay)

\* C21: the audio backend is acquired lazily and released on teardown: there is no audio
\* context after the engine is constructed, nor after stopAll, setMasterVolume or
\* getMasterVolume before the first playChord; a context is created only by a playChord
\* call on an uninitialized engine, and that call creates one unless it fails; destroy
\* leaves zero voices, every voice released, and the context closed.
C21_ContextAcquiredLazily ==
  /\ [](~isInitialized =>
          /\ audioContext = "null" /\ contextsCreated = 0 /\ ~masterGain.node
          /\ getMasterVolume = DefaultMasterVolume)
  /\ [][ /\ (audioContext = "null" /\ audioContext' # "null") =>
              FirstPlayChord /\ contextsCreated' = 1
         /\ contextsCreated' # contextsCreated => FirstPlayChord
         /\ (FirstPlayChord /\ lastPlay'.result # "rejected") =>
              audioContext' \in {"running", "suspended"} /\ isInitialized'
         /\ Destroy =>
              /\ currentVoices' = NoVoices
              /\ audioContext' \in {"null", "closed"}
              /\ audioContext # "null" => audioContext' = "closed"
              /\ \A i \in DOMAIN voices' : voices'[i].stopAt # NotScheduled ]_vars

\* a chord was played on the one context ever created, and destroy released its four
\* voices and closed the context
C21_Witness ==
  /\ audioContext = "closed"
  /\ contextsCreated = 1
  /\ currentVoices = NoVoices
  /\ Len(voices) = 4
  /\ \A i \in DOMAIN voices : voices[i].stopAt # NotScheduled

\* this step is a worker's 'Loaded' message
LoadedReported == \E w \in DOMAIN workers : workers'[w].loaded /\ ~workers[w].loaded

NeverLoaded == \A w \in DOMAIN workers : ~workers[w].loaded

\* no worker is sent a message in this step
NothingPosted ==
  \A w \in DOMAIN workers : Len(workers'[w].inbox) <= Len(workers[w].inbox)

C23_PostedOnlyAfterLoaded ==
  /\ [](hIsReady => workerRef # 0 /\ workers[workerRef].loaded)
  /\ [][ \A w \in DOMAIN workers :
           Len(workers'[w].inbox) > Len(workers[w].inbox) => workers'[w].loaded ]_vars

\* a request posted to a live worker has not been answered yet
RequestOutstanding == \E w \in DOMAIN workers : Alive(w) /\ workers[w].inbox # <<>>

\* C24: a failure the service reports for one harmonization request is not fatal: the
\* session that was ready stays ready after the report (so that the next note change of
\* the control gesture still sends a request).
C24_FailureNotFatal ==
  [][ (hIsReady /\ RequestOutstanding /\ ~LoadedReported /\ hError') => hIsReady' ]_vars

\* C25: processing a frame never raises an error for malformed landmark data: the frame
\* handler completes, and a control-role hand with too few points, or with its index
\* tip missing, leaves the control hand not detected or of class NONE.
C25_MalformedFrameCompletes ==
  /\ ~frameRaised
  /\ \A i \in DOMAIN results :
       (results[i].label = ControlLabel
        /\ (Len(results[i].landmarks) < 21 \/ ~At(results[i].landmarks, 8).present)) =>
         ~controlHand.detected \/ controlHand.vowel = "NONE"

\* the response of the end-to-end scenario
ScenarioChord == <<60, 64, 67, 72>>

\* C26: end to end, with a ready harmonizer: when the control hand goes from not detected
\* to detected at y = 1.0 with an Open gesture, exactly one request is issued, for the
\* lowest note of the scale; when the response {60,64,67,72} arrives and playChord
\* completes, the engine holds four active voices tuned to those notes (on an initialized
\* engine at once); when the control hand becomes not detected the voice set is empty and
\* every voice that was active fades to zero and stops one release window later.
C26_EndToEnd ==
  [][ /\ (hIsReady /\ ~controlHand.detected /\ controlHand'.detected
          /\ controlHand'.y = PitchGrid /\ controlHand'.vowel = "A") =>
           /\ postCount' = postCount + 1
           /\ lastPlayedNoteRef' = ScaleLowest
           /\ workers'[workerRef].inbox = Append(workers[workerRef].inbox, ScaleLowest)
           /\ \A w \in DOMAIN workers : w # workerRef => workers'[w] = workers[w]
      /\ \A w \in DOMAIN workers :
           (Delivered(w) /\ Head(workers[w].outbox) = ScenarioChord) =>
              /\ isInitialized =>
                   /\ HoldsChord(currentVoices', voices', ScenarioChord)
                   /\ Cardinality(Range(currentVoices')) = 4
              /\ ~isInitialized =>
                   \/ HoldsChord(currentVoices', voices', ScenarioChord)
                   \/ pendingPlay' = Append(pendingPlay, ScenarioChord)
                   \/ lastPlay' = [result |-> "rejected", chord |-> ScenarioChord]
      /\ (PlayChordRuns /\ lastPlay'.chord = ScenarioChord) =>
           HoldsChord(currentVoices', voices', ScenarioChord)
      /\ (controlHand.detected /\ ~controlHand'.detected) =>
           /\ currentVoices' = NoVoices
           /\ \A o \in ActiveVoices :
                /\ voices'[o].stopAt = currentTime + ReleaseTime
                /\ voices'[o].gain.t1 = currentTime + ReleaseTime
                /\ ParamValue(voices'[o].gain, currentTime + ReleaseTime) = 0 ]_vars

\* the scenario has run: one request, the chord 60-64-67-72 played, and its four voices
\* released when the control hand, last seen at the bottom of the image, was lost
C26_Witness ==
  /\ hIsReady
  /\ postCount = 1
  /\ ~controlHand.detected /\ controlHand.y = PitchGrid
  /\ currentHarmony.soprano = 60 /\ currentHarmony.bass = 72
  /\ lastPlay = [result |-> "resolved", chord |-> ScenarioChord]
  /\ Len(voices) = 4
  /\ \A k \in 1..4 : /\ voices[k].frequency = midiToFrequency(ScenarioChord[k])
                     /\ voices[k].stopAt = currentTime + ReleaseTime
  /\ currentVoices = NoVoices

\* C27: when the initialization of the audio backend fails during the first playChord,
\* the call fails with an error, no voice is created, the engine stays uninitialized (a
\* later playChord attempts initialization again), and the tracker's error state is not
\* set.
C27_FailedInitLeavesUninitialized ==
  [][ (lastPlay' # lastPlay /\ lastPlay'.result = "rejected") =>
        /\ voices' = voices /\ currentVoices' = currentVoices
        /\ tError' = tError
        /\ ~isInitialized' ]_vars

\* C28: when the landmark source is unavailable or denied the session enters the error
\* state and stays in it, and no synthesis occurs in that session: no frame is
\* processed, no harmonization request is sent, no chord is published and the engine
\* never holds a voice.
C28_CameraFailureSilences ==
  /\ [](tError =>
          /\ ~tIsLoading
          /\ ~controlHand.detected /\ ~volumeHand.detected
          /\ postCount = 0 /\ lastPlayedNoteRef = null
          /\ \A w \in DOMAIN workers : workers[w].inbox = <<>> /\ workers[w].outbox = <<>>
          /\ currentHarmony = NoHarmony
          /\ currentVoices = NoVoices /\ voices = <<>> /\ pendingPlay = <<>>)
  /\ [][ tError => tError' /\ postCount' = postCount /\ voices' = voices ]_vars

\* the camera failed; the harmonizer is nevertheless ready, in real-time mode, on its
\* second worker
C28_Witness ==
  /\ tError
  /\ hIsReady /\ isRealTimeMode
  /\ workerRef = 2 /\ workers[2].loaded

\* C29: the pitch and volume controls are independent: a frame that changes only the
\* volume hand (position or detection) sends no harmonization request and neither starts
\* nor stops a voice, and a frame that changes only the control hand (position, gesture
\* or detection) leaves the master gain, its target included, as it was.
C29_ControlsIndependent ==
  [][ /\ (volumeHand' # volumeHand /\ controlHand' = controlHand) =>
           /\ postCount' = postCount /\ NothingPosted
           /\ lastPlayedNoteRef' = lastPlayedNoteRef
           /\ currentHarmony' = currentHarmony
           /\ voices' = voices /\ currentVoices' = currentVoices
           /\ pendingPlay' = pendingPlay /\ lastPlay' = lastPlay
      /\ (controlHand' # controlHand /\ volumeHand' = volumeHand) =>
           masterGain' = masterGain ]_vars

\* a chord sounds under a control gesture while the volume hand has moved the master
\* target away from the default: the four voices are untouched, one request was sent
C29_Witness ==
  /\ ValidGesture(controlHand)
  /\ volumeHand.detected /\ volumeHand.y = PitchGrid - 3
  /\ isInitialized
  /\ masterGain.v1 = getVolumeFromY(PitchGrid - 3)
  /\ masterGain.v1 # DefaultMasterVolume
  /\ postCount = 1
  /\ Len(voices) = 4
  /\ HoldsChord(currentVoices, voices, lastPlay.chord)

\* C30: in one playChord call the oscillators of all four voices are started at the same
\* audio-clock timestamp, the time of the call, and every voice has the same attack: a
\* linear ramp from zero at that time to the one sustain level an attack time later.
C30_UnifiedOnset ==
  /\ [](\A a, b \in ActiveVoices :
          /\ voices[a].startAt = voices[b].startAt
          /\ voices[a].gain = voices[b].gain)
  /\ [][ PlayChordRuns =>
           /\ Cardinality(Range(currentVoices')) = 4
           /\ \A n \in Range(currentVoices') :
                /\ n > Len(voices)
                /\ voices'[n].startAt = currentTime
                /\ voices'[n].gain =
                     Ramp(0, currentTime, SustainLevel, currentTime + AttackTime)
                /\ ParamValue(voices'[n].gain, currentTime) = 0
                /\ ParamValue(voices'[n].gain, currentTime + AttackTime) = SustainLevel ]_vars

\* a chord started at time 1 has reached its sustain: all four voices at the same level
C30_Witness ==
  /\ Cardinality(ActiveVoices) = 4
  /\ currentTime = 1 + AttackTime
  /\ \A n \in ActiveVoices :
       /\ voices[n].startAt = 1
       /\ ParamValue(voices[n].gain, currentTime) = SustainLevel

\* harmonizeNote and harmonizeNoteRealTime would throw now
NotReady == harmonizeNoteRealTimeThrows(hIsReady, workerRef)

\* C31: harmonizeNote and harmonizeNoteRealTime fail with 'Harmonizer not ready' whenever
\* the harmonizer is not ready or has no worker: such a call posts nothing and leaves the
\* current sequence, melody and harmonies, as it was; a call posts only when ready.
C31_NotReadyCallFails ==
  [][ /\ (NotReady /\ lastHarmonize' # lastHarmonize) =>
           /\ lastHarmonize' = "Harmonizer not ready"
           /\ workers' = workers /\ postCount' = postCount
           /\ sequence' = sequence
      /\ NotReady =>
           /\ NothingPosted /\ postCount' = postCount
           /\ lastHarmonize' # "posted" \/ lastHarmonize' = lastHarmonize
           /\ sequence'.melody = sequence.melody \/ sequence'.melody = <<>>
      /\ (postCount' # postCount) =>
           /\ hIsReady /\ workerRef # 0
           /\ lastHarmonize' = "posted"
           /\ workers'[workerRef].inbox # workers[workerRef].inbox ]_vars

\* a note went out while the harmonizer was ready; after the worker's error the next call
\* failed, and the melody still holds just the first note
C31_Witness ==
  /\ ~hIsReady /\ hError
  /\ lastHarmonize = "Harmonizer not ready"
  /\ postCount = 1
  /\ sequence.exists /\ sequence.melody = <<64>>

\* the chord a response of at least four notes carries
ChordOf(notes) == SubSeq(notes, 1, 4)

\* C32: a received chord always becomes the current harmony, and it is appended to the
\* harmonies of the current sequence exactly when real-time mode is off and a sequence
\* exists: in real-time mode, or without a sequence, the sequence is left unchanged;
\* outside real-time mode the chords are appended at the end, in arrival order.
C32_SequenceOnlyOutsideRealTime ==
  [][ \A w \in DOMAIN workers :
        (Delivered(w) /\ Len(Head(workers[w].outbox)) >= 4) =>
           /\ <<currentHarmony'.soprano, currentHarmony'.alto, currentHarmony'.tenor,
                currentHarmony'.bass>> = ChordOf(Head(workers[w].outbox))
           /\ currentHarmony'.id # currentHarmony.id
           /\ (isRealTimeMode \/ ~sequence.exists) => sequence' = sequence
           /\ (~isRealTimeMode /\ sequence.exists) =>
                /\ sequence'.harmonies =
                     Append(sequence.harmonies, ChordOf(Head(workers[w].outbox)))
                /\ sequence'.melody = sequence.melody
                /\ sequence'.exists ]_vars

\* a chord received outside real-time mode stands in the sequence; the next one, received
\* in real-time mode, is the current harmony only
C32_Witness ==
  /\ isRealTimeMode
  /\ sequence.exists
  /\ sequence.harmonies = << <<60, 64, 67, 72>> >>
  /\ currentHarmony.soprano = 76 /\ currentHarmony.bass = 64

\* this step is a toggleRealTimeMode call
Toggled == isRealTimeMode' # isRealTimeMode

\* C33: toggleRealTimeMode flips the flag and clears the current harmony in
\* both directions.
C33_HarmonyClearedBothWays ==
  [][ Toggled => currentHarmony' = NoHarmony ]_vars

\* no playChord call is waiting for initialize()
AllCallsCompleted == pendingPlay = <<>>

\* C34: if playChord(A) is followed by playChord(B), then once both calls have completed
\* the active voices are those of B, the chord requested last, also when A was still
\* awaiting the first initialization when B was issued.
C34_LastChordWins ==
  (AllCallsCompleted /\ lastCall.op = "playChord" /\ lastPlay.result = "resolved") =>
     HoldsChord(currentVoices, voices, lastCall.chord)

\* C35: if stopAll is the call issued last, then once all pending calls have completed
\* the engine has zero active voices: a playChord that was awaiting initialization when
\* stopAll ran starts no voices afterwards.
C35_StopAllWins ==
  (AllCallsCompleted /\ lastCall.op = "stopAll") => currentVoices = NoVoices

\* playChord has been called for a received chord
ChordCalled == lastPlay.result # "none" \/ pendingPlay # <<>>

\* C36: once the harmonizer has reported ready, if the control hand holds a valid gesture
\* on one note and the service answers every request it receives, playChord is
\* eventually called with a chord for that note: no submitted request is lost.
C36_HeldNoteEventuallyPlayed ==
  (hIsReady /\ ValidGesture(controlHand)) ~> ChordCalled


\* C37: the engine stays usable after teardown: whenever playChord attaches new voices,
\* also after destroy(), the audio context they are attached to is open, not closed.
C37_VoicesOnOpenContext ==
  [][PlayChordRuns => audioContext' # "closed"]_vars


\* landmark heights above the frame, inside it and below it
LandmarkYs == {probeLo - PitchGrid, probeHi, probeLo + probeHi}

HandAt(y) == [x |-> TipX, y |-> y, detected |-> TRUE, vowel |-> "A"]

\* C38: for every landmark y, also below 0 or above 1, the pitch position lies in [0, 1],
\* the key index is inside the white-key scale and the note sent is a member of the
\* scale, never undefined.
C38_NoteAlwaysInScale ==
  \A y \in LandmarkYs :
    /\ getPitchFromY(y) \in 0..PitchGrid
    /\ currentPitch(HandAt(y)) \in 0..PitchGrid
    /\ keyIndex(currentPitch(HandAt(y))) \in 0..(Len(whiteKeys) - 1)
    /\ pitchToMidi(currentPitch(HandAt(y))) # null
    /\ pitchToMidi(currentPitch(HandAt(y))) \in Range(whiteKeys)

\* a landmark above the frame sends the highest note, one below it the lowest
C38_Witness ==
  /\ probeLo - PitchGrid < 0
  /\ probeLo + probeHi > PitchGrid
  /\ pitchToMidi(currentPitch(HandAt(probeLo - PitchGrid))) = 76
  /\ pitchToMidi(currentPitch(HandAt(probeLo + probeHi))) = 60


\* C39: every note of the scale, the highest included, is selected by a range of pitch
\* positions of non-zero width: the note selected at a position is also selected over
\* an interval between two different positions.
C39_EveryNoteHasWidth ==
  \E q \in 0..(PitchGrid - 1) :
    /\ pitchToMidi(q) = pitchToMidi(probeHi)
    /\ pitchToMidi(q + 1) = pitchToMidi(probeHi)


\* this step is a playChord call that finds the engine initialized
PlayChordOnInitialized == isInitialized /\ PlayChordRuns /\ pendingPlay' = pendingPlay

\* C40: the engine creates at most one audio context over any sequence of playChord calls,
\* also when calls overlap the first initialization; initialize() on an initialized
\* engine creates nothing and changes no state.
C40_AtMostOneContext ==
  /\ [](contextsCreated <= 1)
  /\ [][ /\ isInitialized => contextsCreated' = contextsCreated
         /\ PlayChordOnInitialized =>
              UNCHANGED <<isInitialized, audioContext, contextsCreated, masterGain>> ]_vars

\* a second playChord has run while the first still waits in initialize()
C40_Witness ==
  /\ contextsCreated = 1
  /\ audioContext = "suspended"
  /\ pendingPlay # <<>>
  /\ Cardinality(DOMAIN currentVoices) = 4

====
